---- MODULE Spec2Model ----
(***************************************************************************)
(* Neiler-64: the Neiler-8 assembler (computer/assembler/asm.py) and the   *)
(* Neiler-8 CPU (computer/cpu/neiler8.py) as state machines.               *)
(*                                                                         *)
(* Text is modelled by TLA+ strings; a character is a string of length 1.  *)
(* Python integers are unbounded, so are the model's; every masking the    *)
(* code does (& 0xFF, & 0xFFFF, >> 8) is done here by % and \div.          *)
(***************************************************************************)
EXTENDS Integers, Sequences, FiniteSets, TLC

VARIABLES
  asm,          \* the Neiler8Assembler instance: labels, current_address
  source_code,  \* argument of the last assemble() / assemble_line() call
  machine_code, \* what that call returned
  line_codes,   \* the `code` of every line in assemble()'s second pass
  asm_calls,    \* number of calls made on the assembler instance
  cpu,          \* the Neiler8CPU instance: registers, flags, memory, ports
  pc,           \* "idle", or "run" while inside run()'s while loop
  max_cycles,   \* run()'s argument: <<>> for None, <<n>> for the integer n
  cycle_count,  \* run()'s local counter
  op,           \* the last call that was made
  retval,       \* what step() (a BOOLEAN) or run() (an integer) returned
  raised,       \* the exception the last call ended with, "" for none
  args,         \* the arguments of the last load_program(), set_register()
                \* or GPU drawing call, <<>> after any other call
  gpu,          \* the NeilerGPU instance: mode, size, framebuffer
  pixels,       \* the <<x, y>> of every set_pixel() call that the last GPU
                \* drawing call made, in order
  frame,        \* the locals of draw_line() while it is in its loop, <<>>
                \* when it is not
  emu,          \* the NeilerEmulator instance (its CPU is `cpu`) and the
                \* position of its main loop
  init          \* the NeilerInit instance, its threads, timers and children

asmVars == <<asm, source_code, machine_code, line_codes, asm_calls>>
cpuVars == <<cpu, pc, max_cycles, cycle_count, retval>>
gpuVars == <<gpu, pixels, frame>>
hostVars == <<emu, init>>
vars == <<asm, source_code, machine_code, line_codes, asm_calls,
          cpu, pc, max_cycles, cycle_count, op, retval, raised, args,
          gpu, pixels, frame, emu, init>>

----------------------------------------------------------------------------
(* Python str methods used by the assembler.                               *)

Char(s, i) == SubSeq(s, i, i)

\* str.strip() removes these from both ends (the ASCII whitespace).
Whitespace == {" ", "\t", "\r", "\n", "\f"}

RECURSIVE LStrip(_)
LStrip(s) ==
  IF Len(s) > 0 /\ Char(s, 1) \in Whitespace THEN LStrip(Tail(s)) ELSE s

RECURSIVE RStrip(_)
RStrip(s) ==
  IF Len(s) > 0 /\ Char(s, Len(s)) \in Whitespace
  THEN RStrip(SubSeq(s, 1, Len(s) - 1)) ELSE s

Strip(s) == RStrip(LStrip(s))

\* str.upper() on the ASCII letters
UpperOf ==
  ("a" :> "A") @@ ("b" :> "B") @@ ("c" :> "C") @@ ("d" :> "D") @@ ("e" :> "E") @@ ("f" :> "F") @@ ("g" :> "G") @@
  ("h" :> "H") @@ ("i" :> "I") @@ ("j" :> "J") @@ ("k" :> "K") @@ ("l" :> "L") @@ ("m" :> "M") @@ ("n" :> "N") @@
  ("o" :> "O") @@ ("p" :> "P") @@ ("q" :> "Q") @@ ("r" :> "R") @@ ("s" :> "S") @@ ("t" :> "T") @@ ("u" :> "U") @@
  ("v" :> "V") @@ ("w" :> "W") @@ ("x" :> "X") @@ ("y" :> "Y") @@ ("z" :> "Z")

UpperChar(c) == IF c \in DOMAIN UpperOf THEN UpperOf[c] ELSE c

RECURSIVE Upper(_)
Upper(s) == IF s = "" THEN "" ELSE UpperChar(Char(s, 1)) \o Upper(Tail(s))

StartsWith(s, p) == Len(p) <= Len(s) /\ SubSeq(s, 1, Len(p)) = p
EndsWith(s, p) == Len(p) <= Len(s) /\ SubSeq(s, Len(s) - Len(p) + 1, Len(s)) = p
Contains(s, c) == \E i \in 1..Len(s) : Char(s, i) = c

\* str.index(c), 1-based; only used where c occurs.
IndexOf(s, c) == CHOOSE i \in 1..Len(s) :
                    Char(s, i) = c /\ \A j \in 1..(i - 1) : Char(s, j) # c

\* str.split(c): the pieces between the occurrences of the character c.
RECURSIVE Split(_, _)
Split(s, c) ==
  IF Contains(s, c)
  THEN <<SubSeq(s, 1, IndexOf(s, c) - 1)>>
         \o Split(SubSeq(s, IndexOf(s, c) + 1, Len(s)), c)
  ELSE <<s>>

\* str.replace(c, r): every occurrence of the character c becomes r.
RECURSIVE Replace(_, _, _)
Replace(s, c, r) ==
  IF s = "" THEN ""
  ELSE (IF Char(s, 1) = c THEN r ELSE Char(s, 1)) \o Replace(Tail(s), c, r)

----------------------------------------------------------------------------
(* Python int(text, base): optional surrounding whitespace, an optional    *)
(* sign, for base 16 (2) an optional 0x (0b) prefix in either case, then   *)
(* digits of the base, which single underscores may separate.  A text of   *)
(* any other shape raises ValueError: ok = FALSE.                          *)

Digits == "0123456789ABCDEF"

DigitOf ==
  ("0" :> 0) @@ ("1" :> 1) @@ ("2" :> 2) @@ ("3" :> 3) @@ ("4" :> 4) @@ ("5" :> 5) @@
  ("6" :> 6) @@ ("7" :> 7) @@ ("8" :> 8) @@ ("9" :> 9) @@ ("A" :> 10) @@ ("B" :> 11) @@
  ("C" :> 12) @@ ("D" :> 13) @@ ("E" :> 14) @@ ("F" :> 15)

\* a letter digit counts in either case
DigitVal(c) == IF UpperChar(c) \in DOMAIN DigitOf THEN DigitOf[UpperChar(c)] ELSE -1

IsDigit(c, base) == DigitVal(c) >= 0 /\ DigitVal(c) < base

\* prev: the previous character was a digit (or the base prefix), so that
\* an underscore may stand here; the text must end on a digit.
RECURSIVE DigitsOk(_, _, _)
DigitsOk(s, base, prev) ==
  IF s = "" THEN prev
  ELSE IF Char(s, 1) = "_" THEN prev /\ DigitsOk(Tail(s), base, FALSE)
  ELSE IsDigit(Char(s, 1), base) /\ DigitsOk(Tail(s), base, TRUE)

RECURSIVE DigitsValue(_, _, _)
DigitsValue(s, base, acc) ==
  IF s = "" THEN acc
  ELSE IF Char(s, 1) = "_" THEN DigitsValue(Tail(s), base, acc)
  ELSE DigitsValue(Tail(s), base, acc * base + DigitVal(Char(s, 1)))

BasePrefix(base) == IF base = 16 THEN "0X" ELSE IF base = 2 THEN "0B" ELSE "??"

\* the digits after the sign and the prefix; pre: a prefix stood before them
ParseDigits(body, base, pre) ==
  IF body # "" /\ DigitsOk(body, base, pre)
  THEN [ok |-> TRUE, value |-> DigitsValue(body, base, 0)]
  ELSE [ok |-> FALSE, value |-> 0]

ParseUnsigned(u, base) ==
  IF Len(u) >= 2 /\ Upper(SubSeq(u, 1, 2)) = BasePrefix(base)
  THEN ParseDigits(SubSeq(u, 3, Len(u)), base, TRUE)
  ELSE ParseDigits(u, base, FALSE)

Negated(r) == [ok |-> r.ok, value |-> 0 - r.value]

ParseSigned(t, base) ==
  IF t # "" /\ Char(t, 1) = "-" THEN Negated(ParseUnsigned(Tail(t), base))
  ELSE IF t # "" /\ Char(t, 1) = "+" THEN ParseUnsigned(Tail(t), base)
  ELSE ParseUnsigned(t, base)

ParseInt(text, base) == ParseSigned(Strip(text), base)

----------------------------------------------------------------------------
(* Neiler8Assembler.                                                       *)

\* self.opcodes, in declaration order: the order the dict is iterated in.
opcodes ==
  <<
     <<"NOP", 0>>, <<"MOV A,", 1>>, <<"MOV B,", 2>>, <<"MOV C,", 3>>,
     <<"MOV D,", 4>>, <<"MOV X,", 5>>, <<"MOV Y,", 6>>, <<"MOV A, B", 16>>,
     <<"MOV A, C", 17>>, <<"MOV B, A", 18>>, <<"MOV C, A", 19>>, <<"LOAD A,", 32>>,
     <<"LOAD B,", 33>>, <<"STORE A,", 34>>, <<"STORE B,", 35>>, <<"PUSH A", 48>>,
     <<"PUSH B", 49>>, <<"POP A", 50>>, <<"POP B", 51>>, <<"ADD A, B", 64>>,
     <<"ADD A,", 65>>, <<"SUB A, B", 66>>, <<"SUB A,", 67>>, <<"INC A", 68>>,
     <<"INC B", 69>>, <<"INC X", 70>>, <<"INC Y", 71>>, <<"DEC A", 72>>,
     <<"DEC B", 73>>, <<"DEC X", 74>>, <<"DEC Y", 75>>, <<"AND A, B", 80>>,
     <<"OR A, B", 81>>, <<"XOR A, B", 82>>, <<"NOT A", 83>>, <<"SHL A", 84>>,
     <<"SHR A", 85>>, <<"CMP A, B", 96>>, <<"CMP A,", 97>>, <<"JMP", 112>>,
     <<"JZ", 113>>, <<"JNZ", 114>>, <<"JC", 115>>, <<"JNC", 116>>,
     <<"JN", 117>>, <<"CALL", 128>>, <<"RET", 129>>, <<"IN A,", 144>>,
     <<"OUT", 145>>, <<"HLT", 255>>
  >>

ORIGIN == 512

\* The state __init__ leaves.
NewAssembler == [labels |-> <<>>, current_address |-> ORIGIN]

\* self.labels is a dict: a function from label names to addresses.
SetLabel(labels, name, addr) ==
  [k \in DOMAIN labels \cup {name} |-> IF k = name THEN addr ELSE labels[k]]

\* parse_value after value_str.strip()
ParseStripped(labels, value_str) ==
  IF StartsWith(value_str, "0x") \/ StartsWith(value_str, "$")
    THEN ParseInt(Replace(value_str, "$", "0x"), 16)
  ELSE IF StartsWith(value_str, "0b") \/ StartsWith(value_str, "%")
    THEN ParseInt(Replace(value_str, "%", "0b"), 2)
  ELSE IF value_str \in DOMAIN labels
    THEN [ok |-> TRUE, value |-> labels[value_str]]
  ELSE ParseInt(value_str, 10)

\* parse_value: ok = FALSE stands for the ValueError it raises.
parse_value(labels, value_str) == ParseStripped(labels, Strip(value_str))

JumpCallOpcodes == {112, 113, 114, 115, 116, 117, 128}

\* The loop over self.opcodes.items() from entry i on: the index of the first
\* mnemonic the line starts with (where the loop breaks), 0 if there is none.
RECURSIVE MatchIndex(_, _)
MatchIndex(line, i) ==
  IF i > Len(opcodes) THEN 0
  ELSE IF StartsWith(line, opcodes[i][1]) THEN i
  ELSE MatchIndex(line, i + 1)

\* The operand text: what follows the last comma, or all of it.
LastOf(parts) == Strip(parts[Len(parts)])
OperandOf(operand_part) ==
  IF Contains(operand_part, ",") THEN LastOf(Split(operand_part, ","))
  ELSE operand_part

\* The bytes that follow the opcode, v being what parse_value gave; none when
\* it raised, for the bare `except: pass` swallows the error.
EmitOperand(opcode, v) ==
  IF ~v.ok THEN <<>>
  ELSE IF opcode \in JumpCallOpcodes
    THEN <<v.value % 256, (v.value \div 256) % 256>>
  ELSE <<v.value % 256>>

OperandBytes(labels, opcode, operand_part) ==
  IF operand_part = "" THEN <<>>
  ELSE EmitOperand(opcode, parse_value(labels, OperandOf(operand_part)))

Encode_unmatched_is_nop(labels, line, i) ==
  IF i = 0 THEN <<0>>
  ELSE <<opcodes[i][2]>> \o
         OperandBytes(labels, opcodes[i][2],
                      Strip(SubSeq(line, Len(opcodes[i][1]) + 1, Len(line))))

\* machine_code for a line that starts with the mnemonic of entry i; empty
\* when no mnemonic matched (i = 0).
Encode(labels, line, i) ==
  IF i = 0 THEN <<>>
  ELSE <<opcodes[i][2]>> \o
         OperandBytes(labels, opcodes[i][2],
                      Strip(SubSeq(line, Len(opcodes[i][1]) + 1, Len(line))))

\* self.labels[label] = self.current_address
BindLabel(a, label) ==
  [a EXCEPT !.labels = SetLabel(a.labels, label, a.current_address)]

\* assemble_line once the comment is cut and the line stripped and upper-cased
AssembleStripped(a, line) ==
  IF line = "" THEN [asm |-> a, code |-> <<>>]
  ELSE IF EndsWith(line, ":")
    THEN [asm |-> BindLabel(a, SubSeq(line, 1, Len(line) - 1)), code |-> <<>>]
  ELSE [asm |-> a, code |-> Encode(a.labels, line, MatchIndex(line, 1))]

CutComment(line) ==
  IF Contains(line, ";") THEN SubSeq(line, 1, IndexOf(line, ";") - 1) ELSE line

\* assemble_line on assembler state a: the new state and the bytes returned.
assemble_line(a, line) == AssembleStripped(a, Upper(Strip(CutComment(line))))

\* self.current_address += len(code), r being what assemble_line gave
Advance(r) ==
  [r.asm EXCEPT !.current_address = r.asm.current_address + Len(r.code)]

\* One iteration of the first pass (label collection).
FirstPassStripped(a, line, stripped) ==
  IF EndsWith(stripped, ":")
  THEN BindLabel(a, Upper(SubSeq(stripped, 1, Len(stripped) - 1)))
  ELSE Advance(assemble_line(a, line))

RECURSIVE FirstPass(_, _)
FirstPass(a, lines) ==
  IF lines = <<>> THEN a
  ELSE FirstPass(FirstPassStripped(a, Head(lines), Strip(Head(lines))), Tail(lines))

\* One iteration of the second pass: st.codes collects each line's `code`.
Collect(st, r) == [asm |-> Advance(r), codes |-> Append(st.codes, r.code)]

RECURSIVE SecondPass(_, _)
SecondPass(st, lines) ==
  IF lines = <<>> THEN st
  ELSE SecondPass(Collect(st, assemble_line(st.asm, Head(lines))), Tail(lines))

RECURSIVE Flatten(_)
Flatten(ss) == IF ss = <<>> THEN <<>> ELSE Head(ss) \o Flatten(Tail(ss))

AssembleResult(p2) ==
  [asm |-> p2.asm, codes |-> p2.codes, machine_code |-> Flatten(p2.codes)]

\* Both passes over the lines.
AssembleLines(a, lines) ==
  AssembleResult(
    SecondPass([asm |-> [FirstPass([a EXCEPT !.current_address = ORIGIN], lines)
                           EXCEPT !.current_address = ORIGIN],
                codes |-> <<>>],
               lines))

\* assemble on assembler state a: the new state, the per-line codes of the
\* second pass and the returned bytes.
assemble(a, src) == AssembleLines(a, Split(src, "\n"))


----------------------------------------------------------------------------
(* Neiler8CPU.  The instance is a record of its fields.  memory and        *)
(* io_ports start all zero; the model keeps only their non-zero cells.     *)

memory_size == 65536

\* a & b for an integer a and a mask 0 <= b < 65536: Python's & works on
\* the two's complement of a, whose low 16 bits are those of a % 65536.
RECURSIVE NatAnd(_, _)
NatAnd(a, b) ==
  IF a = 0 \/ b = 0 THEN 0
  ELSE (a % 2) * (b % 2) + 2 * NatAnd(a \div 2, b \div 2)

BitAnd(a, b) == NatAnd(a % 65536, b)

\* a | b and a ^ b for a, b >= 0
RECURSIVE BitOr(_, _)
BitOr(a, b) ==
  IF a = 0 THEN b ELSE IF b = 0 THEN a
  ELSE (IF a % 2 = 1 \/ b % 2 = 1 THEN 1 ELSE 0) + 2 * BitOr(a \div 2, b \div 2)

RECURSIVE BitXor(_, _)
BitXor(a, b) ==
  IF a = 0 THEN b ELSE IF b = 0 THEN a
  ELSE (IF a % 2 # b % 2 THEN 1 ELSE 0) + 2 * BitXor(a \div 2, b \div 2)

\* A zero-initialised array, kept as the function of its non-zero cells.
Cell(arr, i) == IF i \in DOMAIN arr THEN arr[i] ELSE 0
SetCell(arr, i, v) ==
  IF v = 0 THEN [k \in DOMAIN arr \ {i} |-> arr[k]]
  ELSE [k \in DOMAIN arr \cup {i} |-> IF k = i THEN v ELSE arr[k]]

\* The state __init__ leaves.
NewCPU ==
  [A |-> 0, B |-> 0, C |-> 0, D |-> 0, X |-> 0, Y |-> 0,
   PC |-> 512, SP |-> 255,
   FLAG_ZERO |-> 0, FLAG_CARRY |-> 0, FLAG_OVERFLOW |-> 0,
   FLAG_NEGATIVE |-> 0, FLAG_INTERRUPT |-> 0,
   memory |-> <<>>, io_ports |-> <<>>,
   halted |-> FALSE, cycles |-> 0]

\* self.opcodes: opcode -> <<name, operand bytes>>; the handlers are Execute.
cpu_opcodes ==
  (0 :> <<"NOP", 0>>) @@
  (1 :> <<"MOV A, imm", 1>>) @@ (2 :> <<"MOV B, imm", 1>>) @@
  (3 :> <<"MOV C, imm", 1>>) @@ (4 :> <<"MOV D, imm", 1>>) @@
  (5 :> <<"MOV X, imm", 1>>) @@ (6 :> <<"MOV Y, imm", 1>>) @@
  (16 :> <<"MOV A, B", 0>>) @@ (17 :> <<"MOV A, C", 0>>) @@
  (18 :> <<"MOV B, A", 0>>) @@ (19 :> <<"MOV C, A", 0>>) @@
  (32 :> <<"LOAD A, [addr]", 2>>) @@ (33 :> <<"LOAD B, [addr]", 2>>) @@
  (34 :> <<"STORE A, [addr]", 2>>) @@ (35 :> <<"STORE B, [addr]", 2>>) @@
  (36 :> <<"LOAD A, [X]", 0>>) @@ (37 :> <<"LOAD A, [Y]", 0>>) @@
  (38 :> <<"STORE A, [X]", 0>>) @@ (39 :> <<"STORE A, [Y]", 0>>) @@
  (48 :> <<"PUSH A", 0>>) @@ (49 :> <<"PUSH B", 0>>) @@
  (50 :> <<"POP A", 0>>) @@ (51 :> <<"POP B", 0>>) @@
  (64 :> <<"ADD A, B", 0>>) @@ (65 :> <<"ADD A, imm", 1>>) @@
  (66 :> <<"SUB A, B", 0>>) @@ (67 :> <<"SUB A, imm", 1>>) @@
  (68 :> <<"INC A", 0>>) @@ (69 :> <<"INC B", 0>>) @@
  (70 :> <<"INC X", 0>>) @@ (71 :> <<"INC Y", 0>>) @@
  (72 :> <<"DEC A", 0>>) @@ (73 :> <<"DEC B", 0>>) @@
  (74 :> <<"DEC X", 0>>) @@ (75 :> <<"DEC Y", 0>>) @@
  (80 :> <<"AND A, B", 0>>) @@ (81 :> <<"OR A, B", 0>>) @@
  (82 :> <<"XOR A, B", 0>>) @@ (83 :> <<"NOT A", 0>>) @@
  (84 :> <<"SHL A", 0>>) @@ (85 :> <<"SHR A", 0>>) @@
  (96 :> <<"CMP A, B", 0>>) @@ (97 :> <<"CMP A, imm", 1>>) @@
  (112 :> <<"JMP addr", 2>>) @@ (113 :> <<"JZ addr", 2>>) @@
  (114 :> <<"JNZ addr", 2>>) @@ (115 :> <<"JC addr", 2>>) @@
  (116 :> <<"JNC addr", 2>>) @@ (117 :> <<"JN addr", 2>>) @@
  (128 :> <<"CALL addr", 2>>) @@ (129 :> <<"RET", 0>>) @@
  (144 :> <<"IN A, port", 1>>) @@ (145 :> <<"OUT port, A", 1>>) @@
  (255 :> <<"HLT", 0>>)

get_register(c, reg_name) == c[reg_name]

update_flags_sign_as_carry(c, value) ==
  [c EXCEPT !.FLAG_ZERO = IF BitAnd(value, 255) = 0 THEN 1 ELSE 0,
            !.FLAG_NEGATIVE = IF BitAnd(value, 128) # 0 THEN 1 ELSE 0,
            !.FLAG_CARRY = IF BitAnd(value, 128) # 0 THEN 1 ELSE 0]

update_flags(c, value) ==
  [c EXCEPT !.FLAG_ZERO = IF BitAnd(value, 255) = 0 THEN 1 ELSE 0,
            !.FLAG_NEGATIVE = IF BitAnd(value, 128) # 0 THEN 1 ELSE 0]

\* set_register storing the value without `& 0xFF`
set_register_unmasked(c, reg_name, value) ==
  update_flags([c EXCEPT ![reg_name] = value], BitAnd(value, 255))

set_register(c, reg_name, value) ==
  update_flags([c EXCEPT ![reg_name] = BitAnd(value, 255)], BitAnd(value, 255))

read_byte(c, address) == Cell(c.memory, BitAnd(address, 65535))

write_byte(c, address, value) ==
  [c EXCEPT !.memory = SetCell(c.memory, BitAnd(address, 65535), BitAnd(value, 255))]

\* fetch_byte with the PC left unmasked
fetch_byte_nowrap(c) ==
  [value |-> read_byte(c, c.PC), cpu |-> [c EXCEPT !.PC = c.PC + 1]]

\* fetch_byte, fetch_word: the value read and the CPU with PC advanced.
fetch_byte(c) ==
  [value |-> read_byte(c, c.PC), cpu |-> [c EXCEPT !.PC = BitAnd(c.PC + 1, 65535)]]

fetch_word(c) ==
  LET low == fetch_byte(c)
      high == fetch_byte(low.cpu)
  IN [value |-> high.value * 256 + low.value, cpu |-> high.cpu]

nop(c) == c

mov_reg_imm(c, reg) ==
  LET f == fetch_byte(c) IN set_register(f.cpu, reg, f.value)

mov_reg_reg(c, dst, src) == set_register(c, dst, get_register(c, src))

load_reg_addr(c, reg) ==
  LET f == fetch_word(c) IN set_register(f.cpu, reg, read_byte(f.cpu, f.value))

store_reg_addr(c, reg) ==
  LET f == fetch_word(c) IN write_byte(f.cpu, f.value, get_register(f.cpu, reg))

load_reg_indexed(c, reg, index_reg) ==
  set_register(c, reg, read_byte(c, get_register(c, index_reg)))

store_reg_indexed(c, reg, index_reg) ==
  write_byte(c, get_register(c, index_reg), get_register(c, reg))

\* push moving SP before it writes
push_predecrement(c, reg) ==
  LET c1 == [c EXCEPT !.SP = BitAnd(c.SP - 1, 255)]
  IN write_byte(c1, 256 + c1.SP, get_register(c, reg))

push(c, reg) ==
  [write_byte(c, 256 + c.SP, get_register(c, reg))
     EXCEPT !.SP = BitAnd(c.SP - 1, 255)]

pop(c, reg) ==
  LET c1 == [c EXCEPT !.SP = BitAnd(c.SP + 1, 255)]
  IN set_register(c1, reg, read_byte(c1, 256 + c1.SP))

\* add_reg_reg with the carry out of bit 7 taken for the overflow
add_reg_reg_overflow_is_carry(c, dst, src) ==
  LET a == get_register(c, dst)
      b == get_register(c, src)
      result == a + b
  IN set_register(
       [c EXCEPT !.FLAG_CARRY = IF result > 255 THEN 1 ELSE 0,
                 !.FLAG_OVERFLOW = IF result > 255 THEN 1 ELSE 0],
       dst, result)

add_reg_reg(c, dst, src) ==
  LET a == get_register(c, dst)
      b == get_register(c, src)
      result == a + b
  IN set_register(
       [c EXCEPT !.FLAG_CARRY = IF result > 255 THEN 1 ELSE 0,
                 !.FLAG_OVERFLOW =
                    IF BitAnd(NatAnd(BitXor(a, result), BitXor(b, result)), 128) # 0
                    THEN 1 ELSE 0],
       dst, result)

\* add_reg_imm reading its operand without advancing PC
add_reg_imm_nofetch(c, reg) ==
  LET a == get_register(c, reg)
      result == a + read_byte(c, c.PC)
  IN set_register([c EXCEPT !.FLAG_CARRY = IF result > 255 THEN 1 ELSE 0],
                  reg, result)

add_reg_imm(c, reg) ==
  LET a == get_register(c, reg)
      f == fetch_byte(c)
      result == a + f.value
  IN set_register([f.cpu EXCEPT !.FLAG_CARRY = IF result > 255 THEN 1 ELSE 0],
                  reg, result)

\* sub_reg_reg with the borrow test `result <= 0`
sub_reg_reg_borrow_on_equal(c, dst, src) ==
  LET result == get_register(c, dst) - get_register(c, src)
  IN set_register([c EXCEPT !.FLAG_CARRY = IF result <= 0 THEN 1 ELSE 0],
                  dst, result)

sub_reg_reg(c, dst, src) ==
  LET result == get_register(c, dst) - get_register(c, src)
  IN set_register([c EXCEPT !.FLAG_CARRY = IF result < 0 THEN 1 ELSE 0],
                  dst, result)

sub_reg_imm(c, reg) ==
  LET a == get_register(c, reg)
      f == fetch_byte(c)
      result == a - f.value
  IN set_register([f.cpu EXCEPT !.FLAG_CARRY = IF result < 0 THEN 1 ELSE 0],
                  reg, result)

\* inc storing the sum as it is
inc_unmasked(c, reg) ==
  update_flags([c EXCEPT ![reg] = get_register(c, reg) + 1],
               get_register(c, reg) + 1)

inc(c, reg) == set_register(c, reg, get_register(c, reg) + 1)
dec(c, reg) == set_register(c, reg, get_register(c, reg) - 1)

and_reg_reg(c, dst, src) ==
  set_register(c, dst, NatAnd(get_register(c, dst), get_register(c, src)))
or_reg_reg(c, dst, src) ==
  set_register(c, dst, BitOr(get_register(c, dst), get_register(c, src)))
xor_reg_reg(c, dst, src) ==
  set_register(c, dst, BitXor(get_register(c, dst), get_register(c, src)))

\* ~value is -value - 1
not_reg(c, reg) == set_register(c, reg, 0 - get_register(c, reg) - 1)

shl(c, reg) ==
  LET value == get_register(c, reg)
  IN set_register([c EXCEPT !.FLAG_CARRY = IF BitAnd(value, 128) # 0 THEN 1 ELSE 0],
                  reg, value * 2)

shr(c, reg) ==
  LET value == get_register(c, reg)
  IN set_register([c EXCEPT !.FLAG_CARRY = IF BitAnd(value, 1) # 0 THEN 1 ELSE 0],
                  reg, value \div 2)

cmp_reg_reg(c, reg1, reg2) ==
  LET result == get_register(c, reg1) - get_register(c, reg2)
  IN [update_flags(c, result) EXCEPT !.FLAG_CARRY = IF result < 0 THEN 1 ELSE 0]

\* cmp_reg_imm storing the difference, as SUB does
cmp_reg_imm_stored(c, reg) == sub_reg_imm(c, reg)

cmp_reg_imm(c, reg) ==
  LET a == get_register(c, reg)
      f == fetch_byte(c)
      result == a - f.value
  IN [update_flags(f.cpu, result) EXCEPT !.FLAG_CARRY = IF result < 0 THEN 1 ELSE 0]

\* jmp, and jz/jnz/jc/jnc/jn with their flag test as `taken`
jump_if(c, taken) ==
  LET f == fetch_word(c)
  IN IF taken THEN [f.cpu EXCEPT !.PC = f.value] ELSE f.cpu

jmp(c) == jump_if(c, TRUE)
\* jz with its test inverted
jz_inverted(c) == jump_if(c, c.FLAG_ZERO = 0)

jz(c) == jump_if(c, c.FLAG_ZERO # 0)
jnz_never_taken(c) == jump_if(c, FALSE)

jnz(c) == jump_if(c, c.FLAG_ZERO = 0)
jc(c) == jump_if(c, c.FLAG_CARRY # 0)
jnc(c) == jump_if(c, c.FLAG_CARRY = 0)
jn(c) == jump_if(c, c.FLAG_NEGATIVE # 0)

\* push_word pushing the low byte first
push_word_low_first(c, value) ==
  LET c1 == write_byte(c, 256 + c.SP, BitAnd(value, 255))
      c2 == [c1 EXCEPT !.SP = BitAnd(c1.SP - 1, 255)]
      c3 == write_byte(c2, 256 + c2.SP, BitAnd(value \div 256, 255))
  IN [c3 EXCEPT !.SP = BitAnd(c3.SP - 1, 255)]

push_word(c, value) ==
  LET c1 == write_byte(c, 256 + c.SP, BitAnd(value \div 256, 255))
      c2 == [c1 EXCEPT !.SP = BitAnd(c1.SP - 1, 255)]
      c3 == write_byte(c2, 256 + c2.SP, BitAnd(value, 255))
  IN [c3 EXCEPT !.SP = BitAnd(c3.SP - 1, 255)]

\* pop_word: the word read and the CPU with SP moved.
pop_word(c) ==
  LET c1 == [c EXCEPT !.SP = BitAnd(c.SP + 1, 255)]
      low == read_byte(c1, 256 + c1.SP)
      c2 == [c1 EXCEPT !.SP = BitAnd(c1.SP + 1, 255)]
      high == read_byte(c2, 256 + c2.SP)
  IN [value |-> high * 256 + low, cpu |-> c2]

call(c) ==
  LET f == fetch_word(c)
  IN [push_word(f.cpu, f.cpu.PC) EXCEPT !.PC = f.value]

ret(c) ==
  LET p == pop_word(c) IN [p.cpu EXCEPT !.PC = p.value]

in_reg(c, reg) ==
  LET f == fetch_byte(c) IN set_register(f.cpu, reg, Cell(f.cpu.io_ports, f.value))

out_reg(c, reg) ==
  LET f == fetch_byte(c)
  IN [f.cpu EXCEPT !.io_ports = SetCell(f.cpu.io_ports, f.value, get_register(f.cpu, reg))]

hlt(c) == [c EXCEPT !.halted = TRUE]

\* The handler self.opcodes binds to each opcode.
Execute(c, opcode) ==
  CASE opcode = 0 -> nop(c)
    [] opcode = 1 -> mov_reg_imm(c, "A")
    [] opcode = 2 -> mov_reg_imm(c, "B")
    [] opcode = 3 -> mov_reg_imm(c, "C")
    [] opcode = 4 -> mov_reg_imm(c, "D")
    [] opcode = 5 -> mov_reg_imm(c, "X")
    [] opcode = 6 -> mov_reg_imm(c, "Y")
    [] opcode = 16 -> mov_reg_reg(c, "A", "B")
    [] opcode = 17 -> mov_reg_reg(c, "A", "C")
    [] opcode = 18 -> mov_reg_reg(c, "B", "A")
    [] opcode = 19 -> mov_reg_reg(c, "C", "A")
    [] opcode = 32 -> load_reg_addr(c, "A")
    [] opcode = 33 -> load_reg_addr(c, "B")
    [] opcode = 34 -> store_reg_addr(c, "A")
    [] opcode = 35 -> store_reg_addr(c, "B")
    [] opcode = 36 -> load_reg_indexed(c, "A", "X")
    [] opcode = 37 -> load_reg_indexed(c, "A", "Y")
    [] opcode = 38 -> store_reg_indexed(c, "A", "X")
    [] opcode = 39 -> store_reg_indexed(c, "A", "Y")
    [] opcode = 48 -> push(c, "A")
    [] opcode = 49 -> push(c, "B")
    [] opcode = 50 -> pop(c, "A")
    [] opcode = 51 -> pop(c, "B")
    [] opcode = 64 -> add_reg_reg(c, "A", "B")
    [] opcode = 65 -> add_reg_imm(c, "A")
    [] opcode = 66 -> sub_reg_reg(c, "A", "B")
    [] opcode = 67 -> sub_reg_imm(c, "A")
    [] opcode = 68 -> inc(c, "A")
    [] opcode = 69 -> inc(c, "B")
    [] opcode = 70 -> inc(c, "X")
    [] opcode = 71 -> inc(c, "Y")
    [] opcode = 72 -> dec(c, "A")
    [] opcode = 73 -> dec(c, "B")
    [] opcode = 74 -> dec(c, "X")
    [] opcode = 75 -> dec(c, "Y")
    [] opcode = 80 -> and_reg_reg(c, "A", "B")
    [] opcode = 81 -> or_reg_reg(c, "A", "B")
    [] opcode = 82 -> xor_reg_reg(c, "A", "B")
    [] opcode = 83 -> not_reg(c, "A")
    [] opcode = 84 -> shl(c, "A")
    [] opcode = 85 -> shr(c, "A")
    [] opcode = 96 -> cmp_reg_reg(c, "A", "B")
    [] opcode = 97 -> cmp_reg_imm(c, "A")
    [] opcode = 112 -> jmp(c)
    [] opcode = 113 -> jz(c)
    [] opcode = 114 -> jnz(c)
    [] opcode = 115 -> jc(c)
    [] opcode = 116 -> jnc(c)
    [] opcode = 117 -> jn(c)
    [] opcode = 128 -> call(c)
    [] opcode = 129 -> ret(c)
    [] opcode = 144 -> in_reg(c, "A")
    [] opcode = 145 -> out_reg(c, "A")
    [] opcode = 255 -> hlt(c)

\* Decode counting a cycle for an unknown opcode too
Decode_counts_unknown_opcode(f) ==
  IF f.value \in DOMAIN cpu_opcodes
  THEN [cpu |-> [Execute(f.cpu, f.value) EXCEPT !.cycles = @ + 1],
        returned |-> TRUE]
  ELSE [cpu |-> [f.cpu EXCEPT !.halted = TRUE, !.cycles = @ + 1],
        returned |-> FALSE]

\* Decode and execute, f being what fetch_byte gave for the opcode.
Decode(f) ==
  IF f.value \in DOMAIN cpu_opcodes
  THEN [cpu |-> [Execute(f.cpu, f.value) EXCEPT !.cycles = @ + 1],
        returned |-> TRUE]
  ELSE [cpu |-> [f.cpu EXCEPT !.halted = TRUE], returned |-> FALSE]

\* step without its `if self.halted: return False`
step_unguarded(c) == Decode(fetch_byte(c))

\* step: the new CPU and the value returned.
step(c) ==
  IF c.halted THEN [cpu |-> c, returned |-> FALSE]
  ELSE Decode(fetch_byte(c))

\* run's loop condition: another step() is made
RunContinues(c, mc, count) ==
  /\ ~c.halted
  /\ ~(mc # <<>> /\ mc[1] # 0 /\ count >= mc[1])

\* self.memory[start_address + i] = byte for start_address >= 0: a plain
\* index, which raises IndexError beyond the array's end.
RECURSIVE StoreBytes(_, _, _)
StoreBytes(mem, program, at) ==
  IF program = <<>> \/ at >= memory_size THEN mem
  ELSE StoreBytes(SetCell(mem, at, Head(program)), Tail(program), at + 1)

\* load_program: the new CPU, and whether IndexError was raised (PC is then
\* not set, the bytes before the failing one are stored).
load_program(c, program, start_address) ==
  LET overrun == start_address + Len(program) > memory_size
      stored == [c EXCEPT !.memory = StoreBytes(c.memory, program, start_address)]
  IN [cpu |-> IF overrun THEN stored ELSE [stored EXCEPT !.PC = start_address],
      raised |-> overrun]

----------------------------------------------------------------------------
(* The GPU (computer/gpu/neilergpu.py).                                    *)
(*                                                                         *)
(* The framebuffer is kept as `cleared`, the value the array was last      *)
(* filled with (0 by np.zeros), and `framebuffer`, the function of the     *)
(* pixels that differ from it, indexed <<y, x>> as the array is. Colours   *)
(* are within the range of the array's element type, so storing one        *)
(* converts nothing. A sprite's data and a background layer are the        *)
(* functions of their non-zero pixels.                                     *)

\* The state __init__(mode) leaves.
\* ((r & 0xF8) << 8) | ((g & 0xFC) << 3) | (b >> 3), for r, g, b >= 0
rgb_to_rgb565_green_five_bits(r, g, b) ==
  BitOr(BitOr(BitAnd(r, 248) * 256, BitAnd(g, 248) * 8), b \div 8)

rgb_to_rgb565(r, g, b) ==
  BitOr(BitOr(BitAnd(r, 248) * 256, BitAnd(g, 252) * 8), b \div 8)

\* The tuple (r, g, b) of a 5/6/5 colour, for color >= 0
rgb565_to_rgb(color) ==
  <<BitAnd(color \div 2048, 31) * 8,
    BitAnd(color \div 32, 63) * 4,
    BitAnd(color, 31) * 8>>

\* _init_default_palette(): a uint16 array holds each packed value as it is.
default_palette == [i \in 0..255 |-> rgb_to_rgb565(i, i, i) % 65536]

GPU(mode) ==
  [mode |-> mode,
   width |-> IF mode = "8bit" THEN 320 ELSE 640,
   height |-> IF mode = "8bit" THEN 200 ELSE 480,
   colors |-> IF mode = "8bit" THEN 256 ELSE 65536,
   framebuffer |-> <<>>, cleared |-> 0,
   palette |-> default_palette,
   num_sprites |-> 64, sprite_width |-> 16, sprite_height |-> 16,
   sprite_data |-> [i \in 0..63 |-> <<>>],
   sprite_x |-> [i \in 0..63 |-> 0],
   sprite_y |-> [i \in 0..63 |-> 0],
   sprite_enabled |-> [i \in 0..63 |-> FALSE],
   bg_layer1 |-> <<>>, bg_layer2 |-> <<>>,
   bg1_scroll_x |-> 0, bg1_scroll_y |-> 0,
   bg2_scroll_x |-> 0, bg2_scroll_y |-> 0,
   registers |-> [VBLANK |-> 0, HBLANK |-> 0, SPRITE_EN |-> 1,
                  BG1_EN |-> 1, BG2_EN |-> 0]]

NewGPU == GPU("8bit")

InBounds(g, x, y) == 0 <= x /\ x < g.width /\ 0 <= y /\ y < g.height

\* A drawing call in progress: the GPU and the set_pixel calls made so far.
Drawing(g, made) == [gpu |-> g, pixels |-> made]

\* framebuffer[y, x] of g, k being <<y, x>>
Pixel(g, k) ==
  IF k \in DOMAIN g.framebuffer THEN g.framebuffer[k] ELSE g.cleared

\* The pixels of fb that differ from the value the array was filled with.
Kept(cleared, fb) == [k \in {c \in DOMAIN fb : fb[c] # cleared} |-> fb[k]]

\* set_pixel(x, y, color) made by the drawing call d
set_pixel(d, x, y, color) ==
  [d EXCEPT !.pixels = Append(@, <<x, y>>),
            !.gpu = IF InBounds(d.gpu, x, y)
                    THEN [@ EXCEPT !.framebuffer =
                            Kept(d.gpu.cleared, (<<y, x>> :> color) @@ @)]
                    ELSE @]

\* get_pixel(x, y): what it returns
get_pixel_wrapping(g, x, y) == Pixel(g, <<y % g.height, x % g.width>>)

get_pixel(g, x, y) == IF InBounds(g, x, y) THEN Pixel(g, <<y, x>>) ELSE 0

\* clear_screen(color)
clear_screen(g, color) == [g EXCEPT !.framebuffer = <<>>, !.cleared = color]

Abs(n) == IF n < 0 THEN 0 - n ELSE n

\* draw_line's locals when it enters its loop.
line_setup(x0, y0, x1, y1, color) ==
  [x0 |-> x0, y0 |-> y0, x1 |-> x1, y1 |-> y1, color |-> color,
   dx |-> Abs(x1 - x0), dy |-> Abs(y1 - y0),
   sx |-> IF x0 < x1 THEN 1 ELSE 0 - 1,
   sy |-> IF y0 < y1 THEN 1 ELSE 0 - 1,
   err |-> Abs(x1 - x0) - Abs(y1 - y0)]

\* The end of one iteration that did not break: e2 is taken once, before
\* either update, and the second update adds to the err the first one left.
line_step_err_never_restored(f) ==
  [f EXCEPT !.x0 = IF 2 * f.err > 0 - f.dy THEN @ + f.sx ELSE @,
            !.y0 = IF 2 * f.err < f.dx THEN @ + f.sy ELSE @,
            !.err = @ - (IF 2 * f.err > 0 - f.dy THEN f.dy ELSE 0)]

line_step(f) ==
  [f EXCEPT !.x0 = IF 2 * f.err > 0 - f.dy THEN @ + f.sx ELSE @,
            !.y0 = IF 2 * f.err < f.dx THEN @ + f.sy ELSE @,
            !.err = @ - (IF 2 * f.err > 0 - f.dy THEN f.dy ELSE 0)
                      + (IF 2 * f.err < f.dx THEN f.dx ELSE 0)]

\* The set_pixel calls a loop makes with one colour, `calls` being their
\* <<x, y>> in order: which of them comes last on a pixel does not matter.
set_pixels(d, calls, color) ==
  [d EXCEPT
     !.pixels = @ \o calls,
     !.gpu.framebuffer =
       IF color = d.gpu.cleared
       THEN [k \in DOMAIN @ \ {<<calls[i][2], calls[i][1]>> :
                                  i \in {j \in DOMAIN calls :
                                    InBounds(d.gpu, calls[j][1], calls[j][2])}}
               |-> @[k]]
       ELSE [k \in {<<calls[i][2], calls[i][1]>> :
                      i \in {j \in DOMAIN calls :
                        InBounds(d.gpu, calls[j][1], calls[j][2])}}
               |-> color] @@ @]

\* len(range(n))
RangeLen(n) == IF n < 0 THEN 0 ELSE n

\* The calls of `for dy in range(height): for dx in range(width):`
rect_fill(x, y, width, height) ==
  [i \in 1..(RangeLen(width) * RangeLen(height)) |->
     <<x + ((i - 1) % width), y + ((i - 1) \div width)>>]

\* The calls of the outline's `for dx in range(width):`
rect_rows(x, y, width, height) ==
  [i \in 1..(2 * RangeLen(width)) |->
     IF i % 2 = 1 THEN <<x + ((i - 1) \div 2), y>>
                  ELSE <<x + ((i - 1) \div 2), y + height - 1>>]

\* The calls of the outline's `for dy in range(height):`
rect_columns(x, y, width, height) ==
  [i \in 1..(2 * RangeLen(height)) |->
     IF i % 2 = 1 THEN <<x, y + ((i - 1) \div 2)>>
                  ELSE <<x + width - 1, y + ((i - 1) \div 2)>>]

\* draw_rect(x, y, width, height, color, fill) on the GPU g
draw_rect(g, x, y, width, height, color, fill) ==
  IF fill
  THEN set_pixels(Drawing(g, <<>>), rect_fill(x, y, width, height), color)
  ELSE set_pixels(set_pixels(Drawing(g, <<>>),
                             rect_rows(x, y, width, height), color),
                  rect_columns(x, y, width, height), color)

\* draw_circle's locals as its loop is first tested
circle_setup(cx, cy, radius, color, fill) ==
  [cx |-> cx, cy |-> cy, x |-> radius, y |-> 0, err |-> 0,
   color |-> color, fill |-> fill]

\* The calls of `for dx in range(-w, w + 1):` on the rows cy + h and cy - h
circle_span(f, w, h) ==
  [i \in 1..(2 * RangeLen(2 * w + 1)) |->
     IF i % 2 = 1 THEN <<f.cx - w + ((i - 1) \div 2), f.cy + h>>
                  ELSE <<f.cx - w + ((i - 1) \div 2), f.cy - h>>]

\* The outline's calls without the last of the eight
circle_outline_seven_points(f) ==
  <<<<f.cx + f.x, f.cy + f.y>>, <<f.cx + f.y, f.cy + f.x>>,
    <<f.cx - f.y, f.cy + f.x>>, <<f.cx - f.x, f.cy + f.y>>,
    <<f.cx - f.x, f.cy - f.y>>, <<f.cx - f.y, f.cy - f.x>>,
    <<f.cx + f.y, f.cy - f.x>>>>

\* The eight set_pixel calls of the outline, in the order they are made
circle_outline(f) ==
  <<<<f.cx + f.x, f.cy + f.y>>, <<f.cx + f.y, f.cy + f.x>>,
    <<f.cx - f.y, f.cy + f.x>>, <<f.cx - f.x, f.cy + f.y>>,
    <<f.cx - f.x, f.cy - f.y>>, <<f.cx - f.y, f.cy - f.x>>,
    <<f.cx + f.y, f.cy - f.x>>, <<f.cx + f.x, f.cy - f.y>>>>

\* The set_pixel calls of one iteration of the loop
circle_calls(f) ==
  IF f.fill THEN circle_span(f, f.x, f.y) \o circle_span(f, f.y, f.x)
  ELSE circle_outline(f)

\* The two `if`s that end an iteration, the second testing the err the
\* first one left
circle_raise_y(f) ==
  IF f.err <= 0 THEN [f EXCEPT !.y = @ + 1, !.err = @ + 2 * (f.y + 1) + 1]
  ELSE f
circle_lower_x(f) ==
  IF f.err > 0 THEN [f EXCEPT !.x = @ - 1, !.err = @ - (2 * (f.x - 1) + 1)]
  ELSE f
circle_step(f) == circle_lower_x(circle_raise_y(f))

\* A sprite call's outcome: the GPU it leaves and the exception it raises.
Called(g, exc) == [gpu |-> g, raised |-> exc]

\* np.array(sprite_data).reshape((16, 16)) of a flat list, zeros left out
Reshape(sprite_data) ==
  [k \in {<<(i - 1) \div 16, (i - 1) % 16>> :
            i \in {j \in 1..256 : sprite_data[j] # 0}}
     |-> sprite_data[k[1] * 16 + k[2] + 1]]

\* load_sprite(sprite_id, sprite_data), sprite_data a list of bytes
load_sprite(g, sprite_id, sprite_data) ==
  IF 0 <= sprite_id /\ sprite_id < g.num_sprites
  THEN IF Len(sprite_data) = 256
       THEN Called([g EXCEPT !.sprite_data[sprite_id] = Reshape(sprite_data)],
                   "")
       ELSE Called(g, "ValueError")
  ELSE Called(g, "")

\* What storing n in an int16 array does with an n outside -32768..32767
\* depends on the numpy installed: it wraps n or raises OverflowError.
IsInt16(n) == 0 - 32768 <= n /\ n <= 32767
Int16(n) == ((n + 32768) % 65536) - 32768

\* set_sprite_position(sprite_id, x, y); `wraps` is the numpy's choice
set_sprite_position(g, sprite_id, x, y, wraps) ==
  IF 0 <= sprite_id /\ sprite_id < g.num_sprites
  THEN IF ~wraps /\ ~IsInt16(x)
       THEN Called(g, "OverflowError")
       ELSE IF ~wraps /\ ~IsInt16(y)
            THEN Called([g EXCEPT !.sprite_x[sprite_id] = Int16(x)],
                        "OverflowError")
            ELSE Called([g EXCEPT !.sprite_x[sprite_id] = Int16(x),
                                  !.sprite_y[sprite_id] = Int16(y)], "")
  ELSE Called(g, "")

\* enable_sprite(sprite_id, enabled)
enable_sprite(g, sprite_id, enabled) ==
  IF 0 <= sprite_id /\ sprite_id < g.num_sprites
  THEN [g EXCEPT !.sprite_enabled[sprite_id] = enabled]
  ELSE g

\* The framebuffer cells draw_sprite's loops store into: those a non-zero
\* pixel of the sprite falls on. px = sx + x is int16 arithmetic that may
\* wrap beyond 32767, to a negative px; wrapped or not it is out of bounds.
sprite_cells(g, sprite_id) ==
  {k \in {<<g.sprite_y[sprite_id] + c[1], g.sprite_x[sprite_id] + c[2]>> :
            c \in DOMAIN g.sprite_data[sprite_id]} :
     InBounds(g, k[2], k[1])}

\* draw_sprite(sprite_id)
draw_sprite_transposed(g, sprite_id) ==
  IF ~(0 <= sprite_id /\ sprite_id < g.num_sprites) THEN g
  ELSE IF ~g.sprite_enabled[sprite_id] THEN g
  ELSE [g EXCEPT !.framebuffer =
          Kept(g.cleared,
          [k \in {c \in {<<g.sprite_y[sprite_id] + d[2],
                            g.sprite_x[sprite_id] + d[1]>> :
                            d \in DOMAIN g.sprite_data[sprite_id]} :
                    InBounds(g, c[2], c[1])} |->
             g.sprite_data[sprite_id][<<k[2] - g.sprite_x[sprite_id],
                                        k[1] - g.sprite_y[sprite_id]>>]]
          @@ @)]

draw_sprite_opaque(g, sprite_id) ==
  IF ~(0 <= sprite_id /\ sprite_id < g.num_sprites) THEN g
  ELSE IF ~g.sprite_enabled[sprite_id] THEN g
  ELSE [g EXCEPT !.framebuffer =
          Kept(g.cleared,
          [k \in sprite_cells(g, sprite_id) |->
             g.sprite_data[sprite_id][<<k[1] - g.sprite_y[sprite_id],
                                        k[2] - g.sprite_x[sprite_id]>>]]
          @@ [k \in {c \in DOMAIN @ :
                       \/ c[1] - g.sprite_y[sprite_id] \notin 0..15
                       \/ c[2] - g.sprite_x[sprite_id] \notin 0..15} |-> @[k]])]

draw_sprite(g, sprite_id) ==
  IF ~(0 <= sprite_id /\ sprite_id < g.num_sprites) THEN g
  ELSE IF ~g.sprite_enabled[sprite_id] THEN g
  ELSE [g EXCEPT !.framebuffer =
          Kept(g.cleared,
          [k \in sprite_cells(g, sprite_id) |->
             g.sprite_data[sprite_id][<<k[1] - g.sprite_y[sprite_id],
                                        k[2] - g.sprite_x[sprite_id]>>]]
          @@ @)]

\* draw_all_sprites()'s loop from sprite i on: it passes over the sprites
\* that are not enabled and calls draw_sprite on the next enabled one.
RECURSIVE draw_sprites_from(_, _)
draw_sprites_from(g, i) ==
  IF \A n \in i..(g.num_sprites - 1) : ~g.sprite_enabled[n] THEN g
  ELSE draw_sprites_from(
         draw_sprite(g, CHOOSE n \in i..(g.num_sprites - 1) :
                          /\ g.sprite_enabled[n]
                          /\ \A m \in i..(n - 1) : ~g.sprite_enabled[m]),
         1 + (CHOOSE n \in i..(g.num_sprites - 1) :
                /\ g.sprite_enabled[n]
                /\ \A m \in i..(n - 1) : ~g.sprite_enabled[m]))

\* draw_all_sprites()
draw_all_sprites_lowest_only(g) ==
  IF \A n \in 0..(g.num_sprites - 1) : ~g.sprite_enabled[n] THEN g
  ELSE draw_sprite(g, CHOOSE n \in 0..(g.num_sprites - 1) :
                        /\ g.sprite_enabled[n]
                        /\ \A m \in 0..(n - 1) : ~g.sprite_enabled[m])

draw_all_sprites(g) == draw_sprites_from(g, 0)

\* scroll_background(layer, dx, dy)
scroll_background_y_modulo_width(g, layer, dx, dy) ==
  IF layer = 1
  THEN [g EXCEPT !.bg1_scroll_x = (@ + dx) % g.width,
                 !.bg1_scroll_y = (@ + dy) % g.width]
  ELSE IF layer = 2
  THEN [g EXCEPT !.bg2_scroll_x = (@ + dx) % g.width,
                 !.bg2_scroll_y = (@ + dy) % g.width]
  ELSE g

scroll_background(g, layer, dx, dy) ==
  IF layer = 1
  THEN [g EXCEPT !.bg1_scroll_x = (@ + dx) % g.width,
                 !.bg1_scroll_y = (@ + dy) % g.height]
  ELSE IF layer = 2
  THEN [g EXCEPT !.bg2_scroll_x = (@ + dx) % g.width,
                 !.bg2_scroll_y = (@ + dy) % g.height]
  ELSE g

\* The framebuffer cell <<y, x>> whose sample, at scroll (sx, sy), is the
\* layer cell k: render_background reads src_y = (y + sy) % height and
\* src_x = (x + sx) % width in every cell of the framebuffer.
sampled_at(g, sx, sy, k) == <<(k[1] - sy) % g.height, (k[2] - sx) % g.width>>

\* render_background(layer)
render_background(g, layer) ==
  IF layer = 1 /\ g.registers.BG1_EN # 0
  THEN [g EXCEPT !.framebuffer =
          Kept(g.cleared,
          [c \in {sampled_at(g, g.bg1_scroll_x, g.bg1_scroll_y, k) :
                    k \in DOMAIN g.bg_layer1} |->
             g.bg_layer1[<<(c[1] + g.bg1_scroll_y) % g.height,
                           (c[2] + g.bg1_scroll_x) % g.width>>]]
          @@ @)]
  ELSE g

----------------------------------------------------------------------------
(* The inputs the operations are called with.                              *)

MaxAsmCalls == 2    \* calls made on one assembler instance
MaxCycles == 5      \* instructions one CPU executes
MaxBudget == 2      \* largest max_cycles passed to run()

Byte == 0..255

\* n >= 0 written in the base, as format(n, "X"), format(n, "b"), str(n) do
RECURSIVE ToBase(_, _)
ToBase(n, base) ==
  IF n < base THEN Char(Digits, n + 1)
  ELSE ToBase(n \div base, base) \o Char(Digits, (n % base) + 1)

\* The five literal forms of an operand value.
LiteralForms == {"0x", "$", "0b", "%", ""}
Literal(form, v) ==
  form \o ToBase(v, IF form \in {"0x", "$"} THEN 16
                     ELSE IF form \in {"0b", "%"} THEN 2 ELSE 10)

LiteralLine(form, v) == "MOV A, " \o Literal(form, v)
\* <<source, form, value>> of every literal line
LiteralCases == {<<LiteralLine(form, v), form, v>> : form \in LiteralForms, v \in Byte}
LiteralSources == {c[1] : c \in LiteralCases}

\* Every pattern of the table as a line of its own.
PatternLines == {opcodes[i][1] : i \in 1..Len(opcodes)}
RegRegPatterns ==
  {"MOV A, B", "MOV A, C", "MOV B, A", "MOV C, A", "ADD A, B", "SUB A, B", "CMP A, B"}

\* The CPU's operand width of a table pattern.
WidthOf(i) == cpu_opcodes[opcodes[i][2]][2]

\* Each mnemonic with the operand its CPU entry takes: none, or a literal.
\* <<text, value>>
OperandSamples ==
  {<<"5", 5>>, <<"$12", 18>>, <<"$1234", 4660>>, <<"%101", 5>>, <<"255", 255>>}
OperandLine(i, t) ==
  IF WidthOf(i) = 0 THEN opcodes[i][1] ELSE opcodes[i][1] \o " " \o t
\* <<line, index of its pattern in opcodes, value of its operand>>
OperandCases ==
  {<<OperandLine(i, t[1]), i, t[2]>> : i \in 1..Len(opcodes), t \in OperandSamples}
OperandLines == {c[1] : c \in OperandCases}

\* Operands that are no literal, no decimal and (in a new assembler) no label.
BadTokens == {"FOO", "$", "$G1", "%12", "12Z", "1 2", "_1"}
BadOperandLines ==
  {opcodes[i][1] \o " " \o t :
     i \in {k \in 1..Len(opcodes) : WidthOf(k) > 0}, t \in BadTokens}

\* Programs that jump or call forward to a label.
RECURSIVE Join(_)
Join(lines) ==
  IF Len(lines) = 1 THEN lines[1] ELSE lines[1] \o "\n" \o Join(Tail(lines))

JumpMnemonics == {"JMP", "JZ", "JNZ", "JC", "JNC", "JN", "CALL"}
LabelNames == {"SKIP", "L1"}
LabelLineOf(name) == name \o ":"
FillLines == {"HLT", "NOP", "MOV A, 1", "", "; skipped", "INC A"}
BodyLines == {"MOV A, 1", "HLT"}

ForwardSources ==
  {Join(<<m \o " " \o l, f, LabelLineOf(l), b, "HLT">>) :
     m \in JumpMnemonics, l \in LabelNames, f \in FillLines, b \in BodyLines}
BackwardSources ==
  {Join(<<LabelLineOf(l), f, m \o " " \o l>>) :
     m \in JumpMnemonics, l \in LabelNames, f \in FillLines}

\* 'MOV A, i / ADD A, j / HLT' with decimal immediates
SumSource(i, j) ==
  Join(<<"MOV A, " \o ToBase(i, 10), "ADD A, " \o ToBase(j, 10), "HLT">>)
SumJ == {0, 3, 100, 255}
\* <<source, i, j>>
SumCases == {<<SumSource(i, j), i, j>> : i \in Byte, j \in SumJ}
SumSources == {c[1] : c \in SumCases}

Sources == LiteralSources \cup ForwardSources \cup BackwardSources
             \cup {SumSource(5, 3), "FOO BAR", "mov a, $ff ; load"}
\* What an assembler that is used again is given.
ReuseSources ==
  {Join(<<m \o " " \o l, "HLT", LabelLineOf(l), "HLT">>) : m \in {"JMP", "CALL"}, l \in LabelNames}
    \cup {Join(<<LabelLineOf(l), "NOP", m \o " " \o l>>) : m \in {"JMP", "JZ"}, l \in LabelNames}
    \cup {SumSource(5, 3), "HLT", "MOV A, SKIP", "JMP L1"}
ReuseLines ==
  {LabelLineOf(l) : l \in LabelNames}
    \cup {"NOP", "HLT", "JMP SKIP", "CALL L1", "MOV A, L1"}

Lines == PatternLines \cup OperandLines \cup BadOperandLines
           \cup {LabelLineOf(l) : l \in LabelNames} \cup {"", "; x", "FOO BAR"}

\* CPU programs: every one-byte program alone and after a prefix that
\* leaves registers, flags, stack, memory and ports non-zero, and some loops.
Prefixes ==
  {<<>>,
   <<1, 200, 65, 100>>,              \* MOV A, 200 / ADD A, 100: A = 44, Carry
   <<1, 5, 48, 145, 7>>,             \* MOV A, 5 / PUSH A / OUT 7
   <<2, 128, 16, 34, 0, 3>>}         \* MOV B, 128 / MOV A, B / STORE A, 0x0300
Loops ==
  {<<112, 0, 2>>,                                  \* JMP 0x0200
   <<1, 0, 65, 1, 97, 1, 114, 2, 2, 255>>,         \* MOV A, 0 / ADD A, 1 / CMP A, 1 / JNZ 0x0202 / HLT
   <<128, 4, 2, 255, 68, 129>>,                    \* CALL 0x0204 / HLT / INC A / RET
   <<1, 5, 65, 3, 255>>}                           \* MOV A, 5 / ADD A, 3 / HLT
Programs == {p \o <<b>> : p \in Prefixes, b \in Byte} \cup Loops
Origins == {ORIGIN, 65535}
Budgets == {<<>>} \cup {<<n>> : n \in 0..MaxBudget}

----------------------------------------------------------------------------
(* The graphical emulator (computer/emulator/neiler_emulator.py).          *)
(*                                                                         *)
(* The emulator's CPU is the variable `cpu`. `emu` holds the emulator's    *)
(* own fields, the position `at` of run()'s main loop ("off" before the    *)
(* emulator is constructed, "events" in handle_input(), "update" inside    *)
(* update_cpu()'s for loop, "quit" after the main loop), `left`, the       *)
(* iterations that for loop still has to make, and `display`, the          *)
(* <<x, y, colour>> of every neiler_display.set_at() call, in order. The   *)
(* memory viewer's offset and the frame rate are not modelled.             *)

NEILER_WIDTH == 320
NEILER_HEIGHT == 200
DRAW_PORT == 130
X_PORT == 128
Y_PORT == 129

\* Before NeilerEmulator() is constructed.
NoEmulator ==
  [at |-> "off", running |-> FALSE, paused |-> FALSE, step_mode |-> FALSE,
   cycles_per_frame |-> 0, total_cycles |-> 0, left |-> 0, display |-> <<>>]

\* The state NeilerEmulator.__init__ leaves, run() entered.
NewEmulator ==
  [at |-> "events", running |-> TRUE, paused |-> FALSE, step_mode |-> FALSE,
   cycles_per_frame |-> 1000, total_cycles |-> 0, left |-> 0, display |-> <<>>]

\* The bytes load_demo_program() passes to cpu.load_program().
demo_program ==
  <<1, 0,          \* "MOV A, 0"
    2, 0,          \* "MOV B, 0"
    3, 1,          \* "MOV C, 1"
    145, 128,      \* "OUT 0x80, A"
    145, 129,      \* "OUT 0x81, B"
    145, 130,      \* "OUT 0x82, C"
    68,            \* "INC A"
    68,            \* "INC C"
    97, BitAnd(NEILER_WIDTH, 255),    \* "CMP A, screen_width"
    114, 2, 6,     \* "JNZ DRAW_LOOP"
    1, 0,          \* "MOV A, 0"
    69,            \* "INC B"
    97, BitAnd(NEILER_HEIGHT, 255),   \* "CMP B, screen_height"
    114, 2, 6,     \* "JNZ DRAW_LOOP"
    112, 2, 0>>    \* "JMP start"

\* load_demo_program on the CPU c
load_demo_program(c) == load_program(c, demo_program, ORIGIN).cpu

\* The colour handle_gpu_output generates from a colour index.
index_colour(color_index) ==
  <<(color_index * 37) % 256, (color_index * 73) % 256, (color_index * 109) % 256>>

\* handle_gpu_output: the CPU and the set_at() calls it leaves.
handle_gpu_output(c, display) ==
  IF Cell(c.io_ports, DRAW_PORT) # 0
  THEN [cpu |-> [c EXCEPT !.io_ports = SetCell(@, DRAW_PORT, 0)],
        display |-> Append(display,
                           <<Cell(c.io_ports, X_PORT) % NEILER_WIDTH,
                             Cell(c.io_ports, Y_PORT) % NEILER_HEIGHT,
                             index_colour(Cell(c.io_ports, DRAW_PORT))>>)]
  ELSE [cpu |-> c, display |-> display]

\* update_cpu's condition for entering its loop
UpdateRuns(e, c) == ~e.paused /\ ~e.step_mode /\ ~c.halted

----------------------------------------------------------------------------
(* The init system (server/neiler-os/init-system/neiler-init.py).          *)
(*                                                                         *)
(* `init` is the NeilerInit instance together with what runs on it: `at`   *)
(* is "off" before it is constructed, "loaded" once the service            *)
(* definitions are in self.services, "up" after run() launched the start   *)
(* threads, "stopping" inside shutdown(), "down" once shutdown() has       *)
(* returned and "exited" after sys.exit(). A service's process is its pid, *)
(* 0 for None. `threads` are the threads executing start_service(), each   *)
(* with its stack of start_service frames (the innermost last); a frame is *)
(* at "enter", at "deps" (the loop over requires, `i` the index of the     *)
(* entry that is checked next), at "popen" (state is STARTING, Popen not   *)
(* yet called) or at "running" (Popen returned). `timers` are the names    *)
(* the pending restart timers were armed with, `children` the pids of the  *)
(* child processes alive, `launched` the name of every service Popen was   *)
(* called for, in order, `stopped` the names stop_service() brought to     *)
(* STOPPED, `to_stop` what shutdown()'s loop still has to visit, `in_stop` *)
(* whether stop_service() has set STOPPING and not yet returned, `result`  *)
(* what the last direct start_service() call returned or raised.           *)

STOPPED == "stopped"
STARTING == "starting"
RUNNING == "running"
STOPPING == "stopping"
FAILED == "failed"

\* Service(name=..., requires=..., restart=..., exec_stop=...), has_stop
\* telling whether exec_stop is set
Service(name, requires, restart, has_stop) ==
  [name |-> name, requires |-> requires, restart |-> restart, exec_stop |-> has_stop,
   state |-> STOPPED, process |-> 0, restart_count |-> 0]

\* Before NeilerInit() is constructed.
NoInit ==
  [at |-> "off", services |-> <<>>, order |-> <<>>, running |-> FALSE,
   threads |-> <<>>, timers |-> <<>>, children |-> {}, next_pid |-> 1,
   launched |-> <<>>, stopped |-> {}, to_stop |-> <<>>, in_stop |-> FALSE,
   result |-> "", exits |-> 0]

\* NeilerInit() followed by load_services(): self.services holds the
\* definitions, in the order the service directory lists them.
LoadedInit(definitions) ==
  [NoInit EXCEPT
     !.at = "loaded",
     !.running = TRUE,
     !.order = [k \in DOMAIN definitions |-> definitions[k].name],
     !.services = [n \in {definitions[k].name : k \in DOMAIN definitions} |->
                     definitions[CHOOSE k \in DOMAIN definitions : definitions[k].name = n]]]

\* run()'s list of default services
default_services ==
  <<"system-setup", "networking", "sshd", "neiler-monitor", "workload-sim">>

\* A new start_service(name) frame, and a thread that calls it.
Frame(name) == [name |-> name, i |-> 0, at |-> "enter"]
Thread(kind, name) == [kind |-> kind, stack |-> <<Frame(name)>>]

WithoutThread(i, t) ==
  [i EXCEPT !.threads = SubSeq(@, 1, t - 1) \o SubSeq(@, t + 1, Len(@))]

\* Thread t ends; a direct call leaves what it returned or raised.
ThreadEnds(i, t, outcome) ==
  [WithoutThread(i, t) EXCEPT
     !.result = IF i.threads[t].kind = "call" THEN outcome ELSE @]

\* The innermost start_service frame of thread t returns `value`: True lets
\* the caller's loop go on to its next entry, False makes every caller
\* return False in turn.
FrameReturns(i, t, value) ==
  LET stack == i.threads[t].stack
      n == Len(stack)
  IN IF value /\ n > 1
     THEN [i EXCEPT !.threads[t].stack =
             Append(SubSeq(stack, 1, n - 2), [stack[n - 1] EXCEPT !.i = @ + 1])]
     ELSE ThreadEnds(i, t, IF value THEN "True" ELSE "False")

\* The next statement of start_service in thread t; `ok` tells whether
\* Popen succeeds, `limit` is the interpreter's recursion limit.
start_service(i, t, ok, limit) ==
  LET stack == i.threads[t].stack
      n == Len(stack)
      f == stack[n]
      name == f.name
  IN CASE f.at = "enter" ->
            IF name \notin DOMAIN i.services THEN FrameReturns(i, t, FALSE)
            ELSE IF i.services[name].state = RUNNING THEN FrameReturns(i, t, TRUE)
            ELSE [i EXCEPT !.threads[t].stack[n] = [f EXCEPT !.at = "deps", !.i = 1]]
       [] f.at = "deps" ->
            IF f.i > Len(i.services[name].requires)
            THEN [i EXCEPT !.services[name].state = STARTING,
                           !.threads[t].stack[n].at = "popen"]
            ELSE LET dep == i.services[name].requires[f.i]
                 IN IF dep \notin DOMAIN i.services \/ i.services[dep].state # RUNNING
                    THEN IF n >= limit THEN ThreadEnds(i, t, "RecursionError")
                         ELSE [i EXCEPT !.threads[t].stack = Append(@, Frame(dep))]
                    ELSE [i EXCEPT !.threads[t].stack[n].i = @ + 1]
       [] f.at = "popen" ->
            IF ok
            THEN [i EXCEPT !.services[name].process = i.next_pid,
                           !.next_pid = @ + 1,
                           !.children = @ \cup {i.next_pid},
                           !.launched = Append(@, name),
                           !.threads[t].stack[n].at = "running"]
            ELSE FrameReturns([i EXCEPT !.services[name].state = FAILED], t, FALSE)
       [] f.at = "running" ->
            FrameReturns([i EXCEPT !.services[name].state = RUNNING], t, TRUE)

\* handle_service_exit(service, status) for the service called name
handle_service_exit(i, name, status) ==
  LET s == i.services[name]
      gone == [i EXCEPT !.services[name].process = 0]
  IN IF s.state = STOPPING
     THEN [gone EXCEPT !.services[name].state = STOPPED]
     ELSE IF s.restart = "always" \/ (s.restart = "on-failure" /\ status # 0)
     THEN [gone EXCEPT !.services[name].state = FAILED,
                       !.services[name].restart_count = @ + 1,
                       !.timers = Append(@, name)]
     ELSE [gone EXCEPT !.services[name].state = IF status # 0 THEN FAILED ELSE STOPPED]

\* handle_sigchld when waitpid() returns (pid, status): the first service,
\* in self.services' order, whose process has that pid
handle_sigchld(i, pid, status) ==
  LET owners == {k \in DOMAIN i.order : i.services[i.order[k]].process = pid}
      reaped == [i EXCEPT !.children = @ \ {pid}]
  IN IF owners = {} THEN reaped
     ELSE handle_service_exit(reaped,
                              i.order[CHOOSE k \in owners : \A j \in owners : k <= j],
                              status)

\* stop_service(name) up to `service.state = ServiceState.STOPPING`: whether
\* it goes on, and the state it leaves
stop_service_begin(i, name) ==
  IF name \notin DOMAIN i.services \/ i.services[name].state # RUNNING
  THEN [i EXCEPT !.to_stop = Tail(@)]
  ELSE [i EXCEPT !.services[name].state = STOPPING, !.in_stop = TRUE]

\* The rest of stop_service(name): the exec_stop command has run (or timed
\* out, when `ok` is false), or the process was terminated and waited for.
stop_service_end(i, name, ok) ==
  LET s == i.services[name]
      left == [i EXCEPT !.to_stop = Tail(@), !.in_stop = FALSE]
      down == [left EXCEPT !.services[name].state = STOPPED,
                           !.services[name].process = 0,
                           !.stopped = @ \cup {name}]
  IN IF s.exec_stop
     THEN IF ok THEN down ELSE left
     ELSE [down EXCEPT !.children = @ \ {s.process}]

----------------------------------------------------------------------------
(* The state machine.                                                      *)

Init ==
  /\ asm = NewAssembler
  /\ source_code = ""
  /\ machine_code = <<>>
  /\ line_codes = <<>>
  /\ asm_calls = 0
  /\ cpu = NewCPU
  /\ pc = "idle"
  /\ max_cycles = <<>>
  /\ cycle_count = 0
  /\ op = "init"
  /\ retval = FALSE
  /\ raised = ""
  /\ args = <<>>
  /\ gpu = NewGPU
  /\ pixels = <<>>
  /\ frame = <<>>
  /\ emu = NoEmulator
  /\ init = NoInit

\* The assembler call on `text` has returned r.code, leaving r.asm.
Assembled(name, text, r, codes) ==
  /\ asm' = r.asm
  /\ source_code' = text
  /\ machine_code' = r.code
  /\ line_codes' = codes
  /\ asm_calls' = asm_calls + 1
  /\ op' = name
  /\ raised' = ""
  /\ args' = <<>>
  /\ UNCHANGED <<hostVars, cpuVars, gpuVars>>

\* assembler.assemble_line(line), called directly, for a line of the set S,
\* on an assembler that has served fewer than `limit` calls
AssembleLine(S, limit) ==
  \E line \in S :
    /\ asm_calls < limit
    /\ Assembled("assemble_line", line, assemble_line(asm, line), <<>>)

AssembleReturned(src, r) ==
  Assembled("assemble", src, [asm |-> r.asm, code |-> r.machine_code], r.codes)

\* assembler.assemble(src) for a source of the set S
Assemble(S, limit) ==
  \E src \in S :
    /\ asm_calls < limit
    /\ AssembleReturned(src, assemble(asm, src))

\* One call on a new assembler.
AssembleLineCall == AssembleLine(Lines, 1)
AssembleCall == Assemble(Sources, 1)
AssembleProgram == Assemble(SumSources, 1)

\* Calls that follow one another on the same assembler.
ReassembleLine == AssembleLine(ReuseLines, MaxAsmCalls)
Reassemble == Assemble(ReuseSources, MaxAsmCalls)

\* cpu.load_program(...) has ended, leaving r.cpu
Loaded(r, program, start_address) ==
  /\ cpu' = r.cpu
  /\ op' = "load_program"
  /\ raised' = IF r.raised THEN "IndexError" ELSE ""
  /\ args' = <<program, start_address>>
  /\ UNCHANGED <<hostVars, asmVars, gpuVars, pc, max_cycles, cycle_count, retval>>

Load(program, start_address) ==
  Loaded(load_program(cpu, program, start_address), program, start_address)

\* cpu.load_program(program, start_address) on the new CPU
LoadProgram ==
  /\ op = "init"
  /\ \E program \in Programs, start_address \in Origins :
       Load(program, start_address)

\* cpu.load_program(machine_code): the image assemble() just returned
LoadImage ==
  op = "assemble" /\ Load(machine_code, ORIGIN)

\* cpu.step() has returned r.returned, leaving r.cpu
Stepped(r) ==
  /\ cpu' = r.cpu
  /\ retval' = r.returned
  /\ op' = "step"
  /\ raised' = ""
  /\ args' = <<>>
  /\ UNCHANGED <<hostVars, asmVars, gpuVars, pc, max_cycles, cycle_count>>

\* cpu.step(), called directly, while the CPU has run fewer than `limit`
\* instructions
StepWithin(limit) ==
  /\ pc = "idle"
  /\ op \in {"load_program", "step", "run"}
  /\ cpu.halted \/ cpu.cycles < limit
  /\ Stepped(step(cpu))

Step == StepWithin(MaxCycles)

\* cpu.run(max_cycles) is entered
RunCall ==
  \E mc \in Budgets :
    /\ pc = "idle"
    /\ op \in {"load_program", "step", "run"}
    /\ pc' = "run"
    /\ max_cycles' = mc
    /\ cycle_count' = 0
    /\ op' = "run"
    /\ raised' = ""
    /\ args' = <<>>
    /\ UNCHANGED <<hostVars, asmVars, gpuVars, cpu, retval>>

\* one iteration of run()'s while loop: self.step(), cycle_count += 1
RunLoop ==
  /\ pc = "run"
  /\ RunContinues(cpu, max_cycles, cycle_count)
  /\ cpu.cycles < MaxCycles
  /\ cpu' = step(cpu).cpu
  /\ cycle_count' = cycle_count + 1
  /\ UNCHANGED <<hostVars, asmVars, gpuVars, pc, max_cycles, op, retval, raised, args>>

\* run() leaves its loop and returns cycle_count; its frame is gone
RunReturn ==
  /\ pc = "run"
  /\ ~RunContinues(cpu, max_cycles, cycle_count)
  /\ pc' = "idle"
  /\ retval' = cycle_count
  /\ max_cycles' = <<>>
  /\ cycle_count' = 0
  /\ UNCHANGED <<hostVars, asmVars, gpuVars, cpu, op, raised, args>>

\* The assembler, one call on a new instance.
NextAsm == AssembleLineCall \/ AssembleCall
SpecAsm == Init /\ [][NextAsm]_vars

\* The assembler, one instance serving several calls.
NextReuse == ReassembleLine \/ Reassemble
SpecReuse == Init /\ [][NextReuse]_vars

\* The CPU alone, on hand-encoded programs.
NextCPU == LoadProgram \/ Step \/ RunCall \/ RunLoop \/ RunReturn
SpecCPU == Init /\ [][NextCPU]_vars

\* Assemble, load the image, execute.
Next == AssembleProgram \/ LoadImage \/ Step \/ RunCall \/ RunLoop \/ RunReturn
Spec == Init /\ [][Next]_vars

----------------------------------------------------------------------------
(* Properties of the assembler.                                              *)

SourceLines == Split(source_code, "\n")
Normal(line) == Upper(Strip(CutComment(line)))

\* The byte offset in the image at which line d starts.
RECURSIVE OffsetOf(_, _)
OffsetOf(codes, d) ==
  IF d <= 1 THEN 0 ELSE OffsetOf(codes, d - 1) + Len(codes[d - 1])

IsReference(line, l) == \E m \in JumpMnemonics : Normal(line) = m \o " " \o l
IsLabelLine(line, l) == Normal(line) = LabelLineOf(l)

\* Line k jumps to the label l, whose (only) definition is line d, later.
ForwardReference(k, d, l) ==
  /\ k < d
  /\ IsReference(SourceLines[k], l)
  /\ IsLabelLine(SourceLines[d], l)
  /\ \A n \in 1..Len(SourceLines) : n # d => ~IsLabelLine(SourceLines[n], l)

\* C1: when assemble() of a new assembler has returned, every JMP/Jcc/CALL
\* line that refers to a label defined on a later line carries as its 16-bit
\* operand, low byte first, the address 0x0200 + the image offset of the
\* first instruction after the label line.
C1_ForwardLabelResolved ==
  (op = "assemble" /\ asm_calls = 1) =>
    \A k \in 1..Len(SourceLines), d \in 1..Len(SourceLines), l \in LabelNames :
      ForwardReference(k, d, l) =>
        /\ Len(line_codes[k]) = 3
        /\ line_codes[k][2] = (ORIGIN + OffsetOf(line_codes, d)) % 256
        /\ line_codes[k][3] = (ORIGIN + OffsetOf(line_codes, d)) \div 256

\* The operand bytes of value v at the CPU's width w.
OperandAt(w, v) ==
  IF w = 0 THEN <<>>
  ELSE IF w = 1 THEN <<v % 256>>
  ELSE <<v % 256, (v \div 256) % 256>>

\* C2: a line made of a mnemonic of the assembler's table and a parseable
\* operand assembles to one opcode byte followed by exactly w operand bytes,
\* w being the width the CPU's table declares for the mnemonic's opcode, a
\* 2-byte operand low byte first (LOAD and STORE with an address included).
C2_LengthsAgree ==
  op = "assemble_line" =>
    \A c \in OperandCases :
      source_code = c[1] =>
        /\ Len(machine_code) = 1 + WidthOf(c[2])
        /\ Tail(machine_code) = OperandAt(WidthOf(c[2]), c[3])

\* C3: a line that is exactly one of the register-register patterns
\* assembles to that pattern's own opcode byte and nothing else.
C3_PatternPrecedence ==
  (op = "assemble_line" /\ source_code \in RegRegPatterns) =>
    \E i \in 1..Len(opcodes) :
      opcodes[i][1] = source_code /\ machine_code = <<opcodes[i][2]>>

\* C4: 'MOV A, <v>' with v in 0..255 written as 0x-hex, $-hex, 0b-binary,
\* %-binary or decimal assembles, through assemble(), to the bytes 0x01, v.
C4_LiteralFormsAgree ==
  op = "assemble" =>
    \A c \in LiteralCases : source_code = c[1] => machine_code = <<1, c[3]>>

\* C5: assembling a line whose mnemonic is in the table and whose operand
\* is no hex literal, binary literal, bound label or decimal integer ends in
\* an error reported to the caller; no bytes are returned for it.
C5_ParseErrorReported ==
  (op = "assemble_line" /\ source_code \in BadOperandLines) => raised # ""

\* C6: assemble(src) on an assembler that has already served calls returns
\* the bytes, and ends with the label table, that assemble(src) on a new
\* assembler gives.
C6_AssembleRepeatable ==
  op = "assemble" =>
    /\ machine_code = assemble(NewAssembler, source_code).machine_code
    /\ asm.labels = assemble(NewAssembler, source_code).asm.labels

----------------------------------------------------------------------------
(* Assembler and CPU together.                                             *)

\* C7: 'MOV A, i / ADD A, j / HLT' with decimal i, j assembles to the bytes
\* 01 i 41 j FF; loaded into a new CPU the program halts within three
\* instructions, run() without a budget leaves its loop only with the CPU
\* halted, and a halted CPU holds A = (i + j) mod 256.
C7_SumProgram ==
  \A c \in SumCases :
    source_code = c[1] =>
      /\ machine_code = <<1, c[2], 65, c[3], 255>>
      /\ (pc = "run" /\ max_cycles = <<>>) => cycle_count <= 3
      /\ (pc = "run" /\ max_cycles = <<>>
            /\ ~RunContinues(cpu, max_cycles, cycle_count)) => cpu.halted
      /\ cpu.halted => cpu.A = (c[2] + c[3]) % 256
      /\ cpu.cycles <= 3

\* C7's case: run() of the image of 'MOV A, 5 / ADD A, 3 / HLT' has made its
\* three steps and is about to return, with A = 8.
C7_Witness ==
  /\ source_code = SumSource(5, 3)
  /\ pc = "run" /\ max_cycles = <<>> /\ cycle_count = 3
  /\ cpu.halted /\ cpu.A = 8

----------------------------------------------------------------------------
(* Properties of the CPU.                                                    *)

\* C8: once halted is true, no step changes anything of the CPU (registers,
\* PC, SP, flags, memory, ports, cycle counter, halted itself), and step()
\* returns False.
C8_HaltedAbsorbing ==
  [][cpu.halted => (cpu' = cpu /\ (op' = "step" => retval' = FALSE))]_vars

\* C8's case: step() was called on a CPU that HLT had halted.
C8_Witness ==
  /\ cpu.halted /\ op = "step" /\ retval = FALSE
  /\ read_byte(cpu, cpu.PC - 1) = 255
  /\ cpu.cycles > 1

\* C9: a step() that fetches at address p a byte with no entry in the CPU's
\* opcode table returns False and changes the CPU only by halted = true and
\* PC = (p + 1) mod 65536; so does the step() made by an iteration of run().
C9_UnknownOpcodeFatal ==
  [][(/\ ~cpu.halted
      /\ read_byte(cpu, cpu.PC) \notin DOMAIN cpu_opcodes
      /\ (op' = "step" \/ cycle_count' = cycle_count + 1))
     => /\ cpu' = [cpu EXCEPT !.halted = TRUE, !.PC = (cpu.PC + 1) % 65536]
        /\ op' = "step" => retval' = FALSE]_vars

\* C9's case: the unknown byte stood at 0xFFFF, and PC wrapped to 0.
C9_Witness ==
  /\ cpu.halted /\ op = "step" /\ retval = FALSE
  /\ cpu.PC = 0 /\ cpu.cycles = 0
  /\ read_byte(cpu, 65535) \notin DOMAIN cpu_opcodes

\* C10: inside run(n) with an integer budget n >= 0, at most n calls of
\* step() have been made.
C10_CycleBudget ==
  (pc = "run" /\ max_cycles # <<>>) => cycle_count <= max_cycles[1]

----------------------------------------------------------------------------
(* run()'s return value.                                                   *)

\* C11: run() returns the amount by which the cycle counter grew during the
\* call: the call starts its count at 0 without touching the CPU, every
\* iteration of its loop raises the count and the CPU's cycle counter by the
\* same amount, and the return hands the count back without touching the
\* CPU.
C11_RunReturnsCycles ==
  [][/\ (pc = "idle" /\ pc' = "run") => (cycle_count' = 0 /\ cpu' = cpu)
     /\ (pc = "run" /\ pc' = "run") =>
          cpu'.cycles - cpu.cycles = cycle_count' - cycle_count
     /\ (pc = "run" /\ pc' = "idle") => (retval' = cycle_count /\ cpu' = cpu)]_vars

----------------------------------------------------------------------------
(* Single instructions, run after a prefix that sets the registers.        *)

MaxInstrCycles == 9

Registers == {"A", "B", "C", "D", "X", "Y"}
ASamples == {0, 1, 2, 127, 128, 254, 255}
BSamples == {0, 1, 10, 127, 128, 200, 255}
SetValues == (0 - 256)..511

\* An instruction with operand byte b (address 0x0200 + b), then HLT.
InstrTail(opcode, b) ==
  <<opcode>>
    \o (IF cpu_opcodes[opcode][2] = 0 THEN <<>>
        ELSE IF cpu_opcodes[opcode][2] = 1 THEN <<b>>
        ELSE <<b, 2>>)
    \o <<255>>

\* MOV A, a / MOV B, b / the instruction / HLT
AfterAB(a, b, opcode) == <<1, a, 2, b>> \o InstrTail(opcode, b)

\* ADD, SUB and CMP, register and immediate
AluOpcodes == {64, 65, 66, 67, 96, 97}
AluPrograms == {AfterAB(a, b, o) : a \in Byte, b \in BSamples, o \in AluOpcodes}

\* MOV, LOAD, INC, DEC of A and B, the logic instructions, STORE, PUSH, OUT
ABOpcodes ==
  (1..6) \cup (16..19) \cup {32, 33, 34, 35, 48, 49, 68, 69, 72, 73}
    \cup (80..85) \cup {145}
ABPrograms == {AfterAB(a, b, o) : a \in ASamples, b \in BSamples, o \in ABOpcodes}

\* MOV A, a / PUSH A / OUT 9 / MOV X, a / MOV Y, a / STORE A, [X] /
\* MOV A, 77 / the instruction / HLT: the stack, port 9 and memory[a] hold a
AfterStores(a, opcode) ==
  <<1, a, 48, 145, 9, 5, a, 6, a, 38, 1, 77>> \o InstrTail(opcode, 9)
StoreOpcodes == {19, 36, 37, 39, 50, 51, 70, 71, 74, 75, 144}
StorePrograms == {AfterStores(a, o) : a \in Byte, o \in StoreOpcodes}

\* Prefixes leaving the flags (Z, C, N) = 000, 100, 001, 010, 110.
FlagSetups ==
  {<<>>, <<1, 0>>, <<1, 128>>, <<1, 200, 65, 100>>, <<1, 128, 65, 128>>}
JumpOpcodes == 112..117
Targets == {0, 515, 564, 65535}
JumpPrograms ==
  {f \o <<j, t % 256, t \div 256>> : f \in FlagSetups, j \in JumpOpcodes, t \in Targets}

\* <<program, start_address>>; a jump alone at 0xFFFF takes its operand
\* from addresses 0 and 1
InstrCases ==
  {<<p, ORIGIN>> : p \in AluPrograms \cup ABPrograms \cup StorePrograms \cup JumpPrograms}
    \cup {<<<<j>>, 65535>> : j \in JumpOpcodes}

\* cpu.load_program(program, start_address) on the new CPU
LoadCase ==
  /\ op = "init"
  /\ \E c \in InstrCases : Load(c[1], c[2])

StepCase == StepWithin(MaxInstrCycles)

\* cpu.set_register(reg_name, value) on the new CPU
SetRegister ==
  /\ op = "init"
  /\ \E reg_name \in Registers, value \in SetValues :
       /\ cpu' = set_register(cpu, reg_name, value)
       /\ op' = "set_register"
       /\ raised' = ""
       /\ args' = <<reg_name, value>>
       /\ UNCHANGED <<hostVars, asmVars, gpuVars, pc, max_cycles, cycle_count, retval>>

NextInstr == LoadCase \/ StepCase \/ SetRegister
SpecInstr == Init /\ [][NextInstr]_vars

\* The instruction a step() from the state c executes, and its operands.
OpcodeAt(c) == read_byte(c, c.PC)
Imm(c) == read_byte(c, c.PC + 1)
Addr(c) == read_byte(c, c.PC + 1) + 256 * read_byte(c, c.PC + 2)

\* The destination register of every instruction that writes a register.
RegisterWrites ==
  [o \in {1, 16, 17, 32, 36, 37, 50, 64, 65, 66, 67, 68, 72, 144} \cup (80..85)
     |-> "A"]
    @@ [o \in {2, 18, 33, 51, 69, 73} |-> "B"]
    @@ [o \in {3, 19} |-> "C"] @@ (4 :> "D")
    @@ [o \in {5, 70, 74} |-> "X"] @@ [o \in {6, 71, 75} |-> "Y"]

\* What the instruction computes, before any reduction.
Result(c, o) ==
  CASE o \in 1..6 -> Imm(c)
    [] o = 16 -> c.B
    [] o = 17 -> c.C
    [] o \in {18, 19} -> c.A
    [] o \in {32, 33} -> read_byte(c, Addr(c))
    [] o = 36 -> read_byte(c, c.X)
    [] o = 37 -> read_byte(c, c.Y)
    [] o \in {50, 51} -> read_byte(c, 256 + ((c.SP + 1) % 256))
    [] o = 64 -> c.A + c.B
    [] o = 65 -> c.A + Imm(c)
    [] o = 66 -> c.A - c.B
    [] o = 67 -> c.A - Imm(c)
    [] o \in 68..71 -> c[RegisterWrites[o]] + 1
    [] o \in 72..75 -> c[RegisterWrites[o]] - 1
    [] o = 80 -> BitAnd(c.A, c.B)
    [] o = 81 -> BitOr(c.A, c.B)
    [] o = 82 -> BitXor(c.A, c.B)
    [] o = 83 -> 0 - c.A - 1
    [] o = 84 -> 2 * c.A
    [] o = 85 -> c.A \div 2
    [] o = 144 -> Cell(c.io_ports, Imm(c))

\* In d the register r holds v mod 256 and Zero, Negative describe it.
Wrote(d, r, v) ==
  /\ d[r] = v % 256
  /\ d.FLAG_ZERO = (IF d[r] = 0 THEN 1 ELSE 0)
  /\ d.FLAG_NEGATIVE = (d[r] \div 128) % 2

\* The transition is a step() that executes an instruction of the set S.
Executes(S) == op' = "step" /\ ~cpu.halted /\ OpcodeAt(cpu) \in S

\* C12: after every instruction that writes a register, and after
\* set_register(r, v), the register holds the result mod 256, Zero is 1
\* exactly when the register is 0 and Negative is bit 7 of the register.
C12_RegisterWriteFlags ==
  [][/\ Executes(DOMAIN RegisterWrites) =>
          Wrote(cpu', RegisterWrites[OpcodeAt(cpu)], Result(cpu, OpcodeAt(cpu)))
     /\ op' = "set_register" => Wrote(cpu', args'[1], args'[2])]_vars

\* C12's case: DEC A was executed with A = 0 and left A = 255, Negative.
C12_Witness ==
  /\ op = "step" /\ retval = TRUE
  /\ read_byte(cpu, cpu.PC - 1) = 72
  /\ cpu.A = 255 /\ cpu.FLAG_NEGATIVE = 1 /\ cpu.FLAG_ZERO = 0

\* The second operand of ADD, SUB and CMP: B, or the immediate byte.
Operand(c, o) == IF o \in {64, 66, 96} THEN c.B ELSE Imm(c)

\* C13: ADD A, B and ADD A, imm leave A = (a + b) mod 256 and Carry = 1
\* exactly when a + b > 255; SUB A, B and SUB A, imm leave A = (a - b) mod 256
\* and Carry = 1 exactly when a < b.
C13_AddSubCarry ==
  [][/\ Executes({64, 65}) =>
          /\ cpu'.A = (cpu.A + Operand(cpu, OpcodeAt(cpu))) % 256
          /\ cpu'.FLAG_CARRY = 1 <=> cpu.A + Operand(cpu, OpcodeAt(cpu)) > 255
          /\ cpu'.FLAG_CARRY \in {0, 1}
     /\ Executes({66, 67}) =>
          /\ cpu'.A = (cpu.A - Operand(cpu, OpcodeAt(cpu))) % 256
          /\ cpu'.FLAG_CARRY = 1 <=> cpu.A < Operand(cpu, OpcodeAt(cpu))
          /\ cpu'.FLAG_CARRY \in {0, 1}]_vars

\* C13's case: MOV A, 250 / MOV B, 10 / ADD A, B has run: A = 4, Carry set.
C13_Witness ==
  /\ op = "step" /\ cpu.PC = 517
  /\ read_byte(cpu, 513) = 250 /\ read_byte(cpu, 515) = 10
  /\ read_byte(cpu, 516) = 64
  /\ cpu.A = 4 /\ cpu.B = 10 /\ cpu.FLAG_CARRY = 1

\* What the SUB twin (0x42 for 0x60, 0x43 for 0x61) of the CMP at c.PC
\* would leave when stepped from c.
SubTwin(c) ==
  Decode([value |-> OpcodeAt(c) - 30, cpu |-> fetch_byte(c).cpu]).cpu

\* C14: CMP A, B and CMP A, imm leave what SUB A, B and SUB A, imm leave from
\* the same state (Zero, Negative, Carry and everything else), except that A
\* keeps its value; no register changes.
C14_CmpIsSubWithoutStore ==
  [][Executes({96, 97}) =>
       /\ cpu' = [SubTwin(cpu) EXCEPT !.A = cpu.A]
       /\ \A r \in Registers : cpu'[r] = cpu[r]]_vars

\* C14's case: MOV A, 5 / MOV B, 10 / CMP A, 10 has run: borrow, negative
\* difference, A still 5.
C14_Witness ==
  /\ op = "step" /\ cpu.PC = 518
  /\ read_byte(cpu, 516) = 97 /\ read_byte(cpu, 517) = 10
  /\ cpu.A = 5 /\ cpu.B = 10
  /\ cpu.FLAG_CARRY = 1 /\ cpu.FLAG_NEGATIVE = 1 /\ cpu.FLAG_ZERO = 0

\* The flag test of each jump, evaluated in the state c.
JumpTaken(c, o) ==
  CASE o = 112 -> TRUE
    [] o = 113 -> c.FLAG_ZERO = 1
    [] o = 114 -> c.FLAG_ZERO = 0
    [] o = 115 -> c.FLAG_CARRY = 1
    [] o = 116 -> c.FLAG_CARRY = 0
    [] o = 117 -> c.FLAG_NEGATIVE = 1

\* C15: a jump at address p with operand t leaves PC = t when it is JMP or
\* its flag test holds, and PC = (p + 3) mod 65536 otherwise; besides PC only
\* the cycle counter changes: no register, flag, SP, memory cell or port.
C15_Jumps ==
  [][Executes(JumpOpcodes) =>
       cpu' = [cpu EXCEPT !.PC = IF JumpTaken(cpu, OpcodeAt(cpu))
                                 THEN Addr(cpu)
                                 ELSE (cpu.PC + 3) % 65536,
                          !.cycles = @ + 1]]_vars

\* C15's case: a JC alone at 0xFFFF, Carry clear, was not taken and PC
\* wrapped to 2.
C15_Witness ==
  /\ op = "step" /\ retval = TRUE /\ cpu.cycles = 1
  /\ read_byte(cpu, 65535) = 115
  /\ cpu.FLAG_CARRY = 0 /\ cpu.PC = 2

\* A taken conditional jump: MOV A, 128 / JN 0x0234 has run.
C15_Taken ==
  /\ op = "step" /\ cpu.cycles = 2
  /\ read_byte(cpu, 514) = 117
  /\ cpu.FLAG_NEGATIVE = 1 /\ cpu.PC = 564

----------------------------------------------------------------------------
(* The stack: loops that take SP through all of 0..255.                    *)

MaxStackCycles == 1300

\* 0200 CALL 0x0207 / 0203 POP A / 0204 JMP 0x0200 / 0207 RET
CallLoop == <<128, 7, 2, 50, 112, 0, 2, 129>>
\* PUSH A / POP B / PUSH B / INC A / JMP 0x0200
PushPopLoop == <<48, 51, 49, 68, 112, 0, 2>>
\* PUSH A / JMP 0x0200
PushLoop == <<48, 112, 0, 2>>
\* MOV A, 0x80 / STORE A, 0xFFFF / MOV A, 0x81 / STORE A, 0x0000 /
\* STORE A, 0x0081 / JMP 0xFFFF: a CALL 0x0081 at 0xFFFF and a RET at 0x0081
WrapCall == <<1, 128, 34, 255, 255, 1, 129, 34, 0, 0, 34, 129, 0, 112, 255, 255>>

\* <<program, start_address>>
StackCases ==
  {<<CallLoop, ORIGIN>>, <<PushPopLoop, ORIGIN>>, <<PushLoop, ORIGIN>>,
   <<WrapCall, ORIGIN>>, <<<<128>>, 65535>>}

LoadStack ==
  /\ op = "init"
  /\ \E c \in StackCases : Load(c[1], c[2])

StepStack == StepWithin(MaxStackCycles)

NextStack == LoadStack \/ StepStack
SpecStack == Init /\ [][NextStack]_vars

\* Every memory cell outside the set S of addresses is in d what it is in c.
SameOutside(c, d, S) ==
  \A a \in (DOMAIN c.memory \cup DOMAIN d.memory) \ S :
    read_byte(d, a) = read_byte(c, a)

StackPage == 256..511

\* C16: a CALL at address p leaves the high byte of (p + 3) mod 65536 at
\* 0x0100 + SP0, its low byte at 0x0100 + (SP0 - 1) mod 256, SP =
\* (SP0 - 2) mod 256 and PC at its target; when the target then holds a RET,
\* executing it leaves PC = (p + 3) mod 65536 and SP = SP0.
C16_CallRetRoundTrip ==
  [][Executes({128}) =>
       /\ cpu'.PC = Addr(cpu)
       /\ cpu'.SP = (cpu.SP - 2) % 256
       /\ read_byte(cpu', 256 + cpu.SP) = ((cpu.PC + 3) % 65536) \div 256
       /\ read_byte(cpu', 256 + ((cpu.SP - 1) % 256)) = ((cpu.PC + 3) % 65536) % 256
       /\ OpcodeAt(cpu') = 129 =>
            /\ step(cpu').returned
            /\ step(cpu').cpu.PC = (cpu.PC + 3) % 65536
            /\ step(cpu').cpu.SP = cpu.SP]_vars

\* C16's case: the CALL at 0x0200 was made with SP = 0 and its RET has
\* returned to 0x0203 with SP = 0 again; the return address lies at 0x0100
\* (high) and 0x01FF (low).
C16_Witness ==
  /\ op = "step" /\ retval = TRUE /\ cpu.cycles = 6
  /\ read_byte(cpu, 512) = 128 /\ read_byte(cpu, 519) = 129
  /\ cpu.PC = 515 /\ cpu.SP = 0
  /\ read_byte(cpu, 256) = 2 /\ read_byte(cpu, 511) = 3

\* The round trip across the end of memory: the CALL at 0xFFFF has returned
\* to address 2.
C16_Wrapped ==
  /\ op = "step" /\ retval = TRUE
  /\ read_byte(cpu, 65535) = 128 /\ read_byte(cpu, 129) = 129
  /\ cpu.PC = 2 /\ cpu.SP = 255 /\ cpu.cycles = 8

\* C17: SP stays in 0..255; PUSH writes the register at 0x0100 + SP and then
\* sets SP = (SP - 1) mod 256; POP sets SP = (SP + 1) mod 256 and then reads
\* 0x0100 + SP; PUSH and CALL change no memory cell outside 0x0100..0x01FF;
\* PUSH A followed by POP B leaves B = A and SP as it was; 256 pushes in the
\* loop PUSH A / JMP 0x0200 bring SP back to 0xFF with the CPU running.
C17_StackDiscipline ==
  [][/\ cpu.SP \in 0..255 /\ cpu'.SP \in 0..255
     /\ Executes({48, 49}) =>
          /\ cpu' = [write_byte(cpu, 256 + cpu.SP,
                                IF OpcodeAt(cpu) = 48 THEN cpu.A ELSE cpu.B)
                       EXCEPT !.SP = (cpu.SP - 1) % 256,
                              !.PC = (cpu.PC + 1) % 65536,
                              !.cycles = @ + 1]
          /\ OpcodeAt(cpu') = 51 =>
               /\ step(cpu').cpu.B = cpu[IF OpcodeAt(cpu) = 48 THEN "A" ELSE "B"]
               /\ step(cpu').cpu.SP = cpu.SP
     /\ Executes({50, 51}) =>
          /\ cpu'.SP = (cpu.SP + 1) % 256
          /\ cpu'[RegisterWrites[OpcodeAt(cpu)]] = read_byte(cpu, 256 + cpu'.SP)
          /\ cpu'.memory = cpu.memory
     /\ Executes({48, 49, 128}) => SameOutside(cpu, cpu', StackPage)
     /\ (op' = "step" /\ read_byte(cpu, 512) = 48 /\ read_byte(cpu, 513) = 112) =>
          /\ cpu'.SP = (255 - ((cpu'.cycles + 1) \div 2)) % 256
          /\ ~cpu'.halted /\ raised' = ""]_vars

\* C17's case: the 256th PUSH of the loop PUSH A / JMP 0x0200 has brought SP
\* back to 0xFF.
C17_Witness ==
  /\ op = "step" /\ retval = TRUE /\ ~cpu.halted
  /\ read_byte(cpu, 512) = 48 /\ read_byte(cpu, 513) = 112
  /\ cpu.cycles = 511 /\ cpu.PC = 513 /\ cpu.SP = 255

\* PUSH A / POP B at SP = 0: B = A = 255 and SP is 0 again.
C17_PushPop ==
  /\ op = "step" /\ read_byte(cpu, 513) = 51 /\ cpu.PC = 514
  /\ cpu.SP = 0 /\ cpu.A = 255 /\ cpu.B = 255

----------------------------------------------------------------------------
(* load_program on a CPU that has already run.                             *)

\* HLT; an unassigned byte; INC A / HLT; MOV A, 5 / PUSH A / HLT
ReloadPrograms == {<<255>>, <<153>>, <<68, 255>>, <<1, 5, 48, 255>>}

\* cpu.load_program(program, start_address) on the new CPU
LoadFirst ==
  /\ op = "init"
  /\ \E program \in ReloadPrograms, start_address \in Origins :
       Load(program, start_address)

\* cpu.load_program(program, start_address) on the CPU as its last step()
\* left it, halted or not
Reload ==
  /\ op = "step"
  /\ \E program \in ReloadPrograms, start_address \in Origins :
       Load(program, start_address)

NextReload == LoadFirst \/ Step \/ Reload
SpecReload == Init /\ [][NextReload]_vars

\* The addresses load_program(program, start_address) is to fill.
Image(program, start_address) ==
  {start_address + i - 1 : i \in 1..Len(program)}

\* C18: load_program(bytes, origin) returns with memory[origin + i] = bytes[i]
\* for every i and PC = origin, and changes nothing else: registers, SP,
\* flags, cycle counter, ports, the other memory cells, halted; a halted
\* CPU stays halted, and a later step() executes nothing.
C18_LoadProgramFrame ==
  [][op' = "load_program" =>
       /\ raised' = ""
       /\ \A i \in 1..Len(args'[1]) :
            /\ args'[2] + i - 1 < memory_size
            /\ Cell(cpu'.memory, args'[2] + i - 1) = args'[1][i]
       /\ cpu'.PC = args'[2]
       /\ cpu' = [cpu EXCEPT !.PC = cpu'.PC, !.memory = cpu'.memory]
       /\ SameOutside(cpu, cpu', Image(args'[1], args'[2]))
       /\ cpu.halted => (cpu'.halted /\ step(cpu') = [cpu |-> cpu', returned |-> FALSE])]_vars

\* The same for the programs that end at or below the top of memory.
C18_FittingPrograms ==
  [][(op' = "load_program" /\ args'[2] + Len(args'[1]) <= memory_size) =>
       /\ raised' = ""
       /\ \A i \in 1..Len(args'[1]) :
            Cell(cpu'.memory, args'[2] + i - 1) = args'[1][i]
       /\ cpu'.PC = args'[2]
       /\ cpu' = [cpu EXCEPT !.PC = cpu'.PC, !.memory = cpu'.memory]
       /\ SameOutside(cpu, cpu', Image(args'[1], args'[2]))
       /\ cpu.halted => (cpu'.halted /\ step(cpu') = [cpu |-> cpu', returned |-> FALSE])]_vars

----------------------------------------------------------------------------
(* The GPU's drawing calls, each made on a freshly constructed GPU.        *)

\* Endpoints: every pair in a cluster around the origin corner, every pair
\* in a cluster around the opposite corner, and lines across the screen.
NearOrigin == (0 - 4)..4
FarX == 316..322
FarY == 197..202
LongLines ==
  {<<0, 0, 319, 199>>, <<319, 0, 0, 199>>, <<0, 199, 319, 0>>,
   <<319, 199, 0, 0>>, <<0 - 5, 100, 325, 100>>, <<325, 100, 0 - 5, 100>>,
   <<160, 0 - 3, 160, 203>>, <<160, 203, 160, 0 - 3>>,
   <<10, 10, 300, 20>>, <<20, 190, 10, 10>>, <<0 - 4, 0 - 4, 322, 202>>}
LineCases ==
  (NearOrigin \X NearOrigin \X NearOrigin \X NearOrigin)
    \cup (FarX \X FarY \X FarX \X FarY) \cup LongLines
Colors == {1, 255}

\* The model follows draw_line's loop for at most MaxLineSteps iterations.
MaxLineSteps == 400

\* draw_line(x0, y0, x1, y1, color) is called and reaches its loop.
DrawLineCall ==
  /\ op = "init"
  /\ \E l \in LineCases, color \in Colors :
       /\ frame' = line_setup(l[1], l[2], l[3], l[4], color)
       /\ args' = <<l[1], l[2], l[3], l[4], color>>
  /\ pixels' = <<>>
  /\ op' = "draw_line"
  /\ raised' = ""
  /\ UNCHANGED <<hostVars, asmVars, cpuVars, gpu>>

\* One iteration of the loop: set_pixel, then break (and return) or step.
DrawLineLoop ==
  /\ frame # <<>>
  /\ Len(pixels) < MaxLineSteps
  /\ gpu' = set_pixel(Drawing(gpu, pixels), frame.x0, frame.y0, frame.color).gpu
  /\ pixels' = Append(pixels, <<frame.x0, frame.y0>>)
  /\ frame' = IF frame.x0 = frame.x1 /\ frame.y0 = frame.y1
              THEN <<>>
              ELSE line_step(frame)
  /\ UNCHANGED <<hostVars, asmVars, cpuVars, op, raised, args>>

\* Rectangles at and across the corners of the framebuffer, of every width
\* and height that range() takes as empty, and up to 4.
RectX == ((0 - 2)..1) \cup (317..320)
RectY == ((0 - 2)..1) \cup (197..200)
RectSizes == (0 - 1)..4

DrawRect ==
  /\ op = "init"
  /\ \E x \in RectX, y \in RectY, width \in RectSizes, height \in RectSizes,
        color \in Colors, fill \in BOOLEAN :
       /\ gpu' = draw_rect(gpu, x, y, width, height, color, fill).gpu
       /\ pixels' = draw_rect(gpu, x, y, width, height, color, fill).pixels
       /\ args' = <<x, y, width, height, color, fill>>
  /\ op' = "draw_rect"
  /\ raised' = ""
  /\ UNCHANGED <<hostVars, asmVars, cpuVars, frame>>

NextGPU == DrawLineCall \/ DrawLineLoop \/ DrawRect
SpecGPU == Init /\ [][NextGPU]_vars

Max(a, b) == IF a > b THEN a ELSE b

\* C19: draw_line(x0, y0, x1, y1, c) returns for all endpoints, on or off the
\* framebuffer: its loop has made at most max(|x1 - x0|, |y1 - y0|) calls of
\* set_pixel whenever it is about to make one more. When it has returned it
\* has called set_pixel on exactly max(|x1 - x0|, |y1 - y0|) + 1 pixels, none
\* of them twice, the first of them (x0, y0) and the last (x1, y1), each
\* differing from the one before by at most 1 in x and at most 1 in y;
\* draw_line(0, 0, 4, 4, c) visits (0,0), (1,1), (2,2), (3,3), (4,4) in that
\* order.
C19_DrawLine ==
  /\ frame # <<>> =>
       Len(pixels) <= Max(Abs(args[3] - args[1]), Abs(args[4] - args[2]))
  /\ (op = "draw_line" /\ frame = <<>>) =>
       /\ Len(pixels) = Max(Abs(args[3] - args[1]), Abs(args[4] - args[2])) + 1
       /\ \A i, j \in 1..Len(pixels) : pixels[i] = pixels[j] => i = j
       /\ pixels[1] = <<args[1], args[2]>>
       /\ pixels[Len(pixels)] = <<args[3], args[4]>>
       /\ \A i \in 2..Len(pixels) :
            /\ Abs(pixels[i][1] - pixels[i - 1][1]) <= 1
            /\ Abs(pixels[i][2] - pixels[i - 1][2]) <= 1
       /\ (args[1] = 0 /\ args[2] = 0 /\ args[3] = 4 /\ args[4] = 4) =>
            pixels = <<<<0, 0>>, <<1, 1>>, <<2, 2>>, <<3, 3>>, <<4, 4>>>>

\* A steep line that starts left of the framebuffer and ends above it has
\* been drawn: one of its eight pixels is on the framebuffer.
C19_Witness ==
  /\ op = "draw_line" /\ frame = <<>>
  /\ args[1] = 0 - 2 /\ args[2] = 4 /\ args[3] = 1 /\ args[4] = 0 - 3
  /\ pixels = <<<<0 - 2, 4>>, <<0 - 2, 3>>, <<0 - 1, 2>>, <<0 - 1, 1>>,
                <<0, 0>>, <<0, 0 - 1>>, <<1, 0 - 2>>, <<1, 0 - 3>>>>
  /\ DOMAIN gpu.framebuffer = {<<0, 0>>}

\* draw_line(0, 0, 4, 4, c) has drawn the diagonal.
C19_Diagonal ==
  /\ op = "draw_line" /\ frame = <<>>
  /\ pixels = <<<<0, 0>>, <<1, 1>>, <<2, 2>>, <<3, 3>>, <<4, 4>>>>
  /\ DOMAIN gpu.framebuffer = {<<i, i>> : i \in 0..4}

\* A line from corner to corner of the framebuffer has been drawn.
C19_AcrossTheScreen ==
  /\ op = "draw_line" /\ frame = <<>>
  /\ Len(pixels) = 320
  /\ Cardinality(DOMAIN gpu.framebuffer) = 320

\* The framebuffer cells <<row, column>> of the rectangle [x, x+w) x [y, y+h)
\* that are on the framebuffer of g.
RectCells(g, x, y, w, h) ==
  {<<yy, xx>> : xx \in {v \in x..(x + w - 1) : 0 <= v /\ v < g.width},
                yy \in {v \in y..(y + h - 1) : 0 <= v /\ v < g.height}}

\* Those of them on the rectangle's first or last row or column.
BorderCells(g, x, y, w, h) ==
  {c \in RectCells(g, x, y, w, h) :
     c[1] = y \/ c[1] = y + h - 1 \/ c[2] = x \/ c[2] = x + w - 1}

\* C20: for all x, y and all w >= 0, h >= 0, the pixels draw_rect sets on a
\* clear framebuffer are, filled, exactly the in-bounds pixels of the
\* rectangle [x, x+w) x [y, y+h) and, outlined, exactly those of them on its
\* first or last row or column; so the outline sets no pixel that the filled
\* call with the same arguments would set not, w = 0 and h = 0 included.
C20_DrawRect ==
  (op = "draw_rect" /\ args[3] >= 0 /\ args[4] >= 0) =>
    /\ args[6] =>
         DOMAIN gpu.framebuffer = RectCells(gpu, args[1], args[2], args[3], args[4])
    /\ ~args[6] =>
         /\ DOMAIN gpu.framebuffer =
              BorderCells(gpu, args[1], args[2], args[3], args[4])
         /\ DOMAIN gpu.framebuffer \subseteq
              DOMAIN draw_rect(NewGPU, args[1], args[2], args[3], args[4],
                               args[5], TRUE).gpu.framebuffer

\* The same for w >= 1 and h >= 1.
C20_NonEmptyRectangles ==
  (op = "draw_rect" /\ args[3] >= 1 /\ args[4] >= 1) =>
    /\ args[6] =>
         DOMAIN gpu.framebuffer = RectCells(gpu, args[1], args[2], args[3], args[4])
    /\ ~args[6] =>
         /\ DOMAIN gpu.framebuffer =
              BorderCells(gpu, args[1], args[2], args[3], args[4])
         /\ DOMAIN gpu.framebuffer \subseteq
              DOMAIN draw_rect(NewGPU, args[1], args[2], args[3], args[4],
                               args[5], TRUE).gpu.framebuffer

\* The filled calls with w >= 0 and h >= 0.
C20_Filled ==
  (op = "draw_rect" /\ args[3] >= 0 /\ args[4] >= 0 /\ args[6]) =>
    DOMAIN gpu.framebuffer = RectCells(gpu, args[1], args[2], args[3], args[4])

\* An outline of width 0 and height 3 has set two columns of pixels.
C20_EmptyOutline ==
  /\ op = "draw_rect"
  /\ args[1] = 1 /\ args[2] = 0 /\ args[3] = 0 /\ args[4] = 3 /\ ~args[6]
  /\ DOMAIN gpu.framebuffer = {<<0, 0>>, <<1, 0>>, <<2, 0>>,
                               <<0, 1>>, <<1, 1>>, <<2, 1>>}

----------------------------------------------------------------------------
(* The sprite calls: a GPU, clear or with a rectangle drawn on it, has its *)
(* sprites loaded, placed and enabled in any order, and then draws.        *)

\* Sprite data as load_sprite() is given it, a flat list of 256 bytes: one
\* of a single colour, one with transparent rows, columns and corners, one
\* that is all transparent, and a list that is too short.
Solid == [i \in 1..256 |-> 4]
Holed ==
  [i \in 1..256 |->
     IF ((i - 1) \div 16) % 5 = 2 \/ ((i - 1) % 16) % 7 = 3 \/ i \in {1, 256}
     THEN 0
     ELSE IF (i - 1) % 16 < 8 THEN 2 ELSE 255]
Blank == [i \in 1..256 |-> 0]
\* Sprite ids: the first, the last, and one beyond either end.
SpriteIds == {0 - 1, 0, 63, 64}

\* load_sprite() calls: sprite 0 takes every kind of data.
LoadCases ==
  ({0} \X {Solid, Holed, Blank, <<1, 2, 3, 4>>})
    \cup ({63} \X {Holed}) \cup ({0 - 1, 64} \X {Solid})

\* set_sprite_position() calls: sprite 0 goes on the framebuffer, across two
\* of its corners, wholly off it, and where no int16 holds its x; sprite 63
\* goes where it overlaps sprite 0.
PositionCases ==
  ({0} \X {<<5, 5>>, <<0 - 3, 0 - 2>>, <<310, 190>>, <<320, 0 - 16>>,
           <<40000, 7>>})
    \cup ({63} \X {<<8, 9>>}) \cup ({0 - 1, 64} \X {<<5, 5>>})

SetupOps == {"init", "draw_rect", "load_sprite", "set_sprite_position",
             "enable_sprite"}

\* A call that sets no pixel through set_pixel() has ended.
SpriteCalled(r, name, a) ==
  /\ gpu' = r.gpu
  /\ raised' = r.raised
  /\ op' = name
  /\ args' = a
  /\ pixels' = <<>>
  /\ UNCHANGED <<hostVars, asmVars, cpuVars, frame>>

\* draw_rect(2, 1, 7, 6, 9, fill=True) as the first call
DrawRectFirst ==
  /\ op = "init"
  /\ gpu' = draw_rect(gpu, 2, 1, 7, 6, 9, TRUE).gpu
  /\ pixels' = draw_rect(gpu, 2, 1, 7, 6, 9, TRUE).pixels
  /\ op' = "draw_rect"
  /\ args' = <<2, 1, 7, 6, 9, TRUE>>
  /\ raised' = ""
  /\ UNCHANGED <<hostVars, asmVars, cpuVars, frame>>

LoadSprite ==
  /\ op \in SetupOps
  /\ \E c \in LoadCases :
       SpriteCalled(load_sprite(gpu, c[1], c[2]), "load_sprite", c)

SetSpritePosition ==
  /\ op \in SetupOps
  /\ \E c \in PositionCases :
       \E wraps \in IF IsInt16(c[2][1]) /\ IsInt16(c[2][2])
                    THEN {TRUE} ELSE BOOLEAN :
         SpriteCalled(set_sprite_position(gpu, c[1], c[2][1], c[2][2], wraps),
                      "set_sprite_position", <<c[1], c[2][1], c[2][2]>>)

EnableSprite ==
  /\ op \in SetupOps
  /\ \E sprite_id \in SpriteIds, enabled \in BOOLEAN :
       SpriteCalled(Called(enable_sprite(gpu, sprite_id, enabled), ""),
                    "enable_sprite", <<sprite_id, enabled>>)

DrawSprite ==
  /\ op \in SetupOps
  /\ \E sprite_id \in SpriteIds :
       SpriteCalled(Called(draw_sprite(gpu, sprite_id), ""), "draw_sprite",
                    <<sprite_id>>)

DrawAllSprites ==
  /\ op \in SetupOps
  /\ SpriteCalled(Called(draw_all_sprites(gpu), ""), "draw_all_sprites", <<>>)

NextSprites ==
  \/ DrawRectFirst \/ LoadSprite \/ SetSpritePosition \/ EnableSprite
  \/ DrawSprite \/ DrawAllSprites
SpecSprites == Init /\ [][NextSprites]_vars

\* The colour of pixel (x, y) of sprite id, and the framebuffer cell
\* <<row, column>> that pixel falls on.
SpritePixel(g, id, x, y) == Cell(g.sprite_data[id], <<y, x>>)
SpriteCell(g, id, x, y) == <<g.sprite_y[id] + y, g.sprite_x[id] + x>>

\* Cell k lies under a non-zero pixel of sprite id.
Covers(g, id, k) ==
  /\ k[1] - g.sprite_y[id] \in 0..15
  /\ k[2] - g.sprite_x[id] \in 0..15
  /\ SpritePixel(g, id, k[2] - g.sprite_x[id], k[1] - g.sprite_y[id]) # 0

\* The framebuffer of h is that of g with sprite id of g composited on it.
Composited(g, h, id) ==
  /\ \A x, y \in 0..15 :
       (InBounds(g, g.sprite_x[id] + x, g.sprite_y[id] + y)
          /\ SpritePixel(g, id, x, y) # 0) =>
         Cell(h.framebuffer, SpriteCell(g, id, x, y)) = SpritePixel(g, id, x, y)
  /\ \A k \in DOMAIN g.framebuffer \cup DOMAIN h.framebuffer :
       ~Covers(g, id, k) => Cell(h.framebuffer, k) = Cell(g.framebuffer, k)

\* C21 as stated: for every sprite id in 0..63, whatever its data and its
\* position, after draw_sprite(id) every framebuffer pixel that is in bounds
\* and under a non-zero pixel of the sprite holds that pixel's colour, and
\* every other framebuffer pixel is unchanged.
C21_DrawSpriteComposites ==
  [][(op' = "draw_sprite" /\ args'[1] \in 0..63) =>
       Composited(gpu, gpu', args'[1])]_vars

\* C21 for the sprites that are enabled: after draw_sprite(id) of an enabled
\* sprite id in 0..63 every framebuffer pixel that is in bounds and under a
\* non-zero pixel of the sprite holds that pixel's colour, and every other
\* framebuffer pixel is unchanged; draw_sprite(id) of a sprite that is not
\* enabled leaves the framebuffer as it was.
C21_DrawEnabledSpriteComposites ==
  [][(op' = "draw_sprite" /\ args'[1] \in 0..63) =>
       IF gpu.sprite_enabled[args'[1]]
       THEN Composited(gpu, gpu', args'[1])
       ELSE gpu'.framebuffer = gpu.framebuffer]_vars

\* An enabled sprite with transparent pixels, placed across the origin corner
\* of the framebuffer, has been drawn over the rectangle: the framebuffer
\* shows the sprite's colour where the rectangle was, and the rectangle
\* through the sprite's transparent column.
C21_Witness ==
  /\ op = "draw_sprite" /\ args = <<0>>
  /\ gpu.sprite_enabled[0]
  /\ gpu.sprite_data[0] = Reshape(Holed)
  /\ gpu.sprite_x[0] = 0 - 3 /\ gpu.sprite_y[0] = 0 - 2
  /\ Cell(gpu.framebuffer, <<1, 2>>) = 2
  /\ Cell(gpu.framebuffer, <<1, 0>>) = 0
  /\ Cell(gpu.framebuffer, <<1, 7>>) = 9
  /\ Cell(gpu.framebuffer, <<12, 12>>) = 255

\* draw_sprite() of a loaded and placed sprite that is not enabled has left
\* the framebuffer clear.
C21_NotEnabled ==
  /\ op = "draw_sprite" /\ args = <<0>>
  /\ ~gpu.sprite_enabled[0]
  /\ gpu.sprite_data[0] = Reshape(Solid)
  /\ gpu.sprite_x[0] = 5 /\ gpu.sprite_y[0] = 5
  /\ gpu.framebuffer = <<>>

\* The framebuffer cells in which g and h differ.
Changed(g, h) ==
  {k \in DOMAIN g.framebuffer \cup DOMAIN h.framebuffer :
     Cell(h.framebuffer, k) # Cell(g.framebuffer, k)}

SpriteOps == {"load_sprite", "set_sprite_position", "enable_sprite",
              "draw_sprite"}

\* C22: draw_sprite() of an enabled sprite whose 256 pixels are all 0 leaves
\* the framebuffer unchanged wherever the sprite is, negative and off-screen
\* positions included; draw_sprite() never stores a 0, never stores outside
\* the sprite's 16x16 footprint and never raises; load_sprite(),
\* set_sprite_position(), enable_sprite() and draw_sprite() with an id outside
\* 0..63 change nothing.
C22_TransparencyAndClipping ==
  [][/\ (op' = "draw_sprite" /\ args'[1] \in 0..63) =>
          /\ raised' = ""
          /\ (gpu.sprite_enabled[args'[1]]
                /\ \A x, y \in 0..15 : SpritePixel(gpu, args'[1], x, y) = 0) =>
               gpu'.framebuffer = gpu.framebuffer
          /\ \A k \in Changed(gpu, gpu') :
               /\ Cell(gpu'.framebuffer, k) # 0
               /\ k[1] - gpu.sprite_y[args'[1]] \in 0..15
               /\ k[2] - gpu.sprite_x[args'[1]] \in 0..15
     /\ (op' \in SpriteOps /\ args'[1] \notin 0..63) =>
          (gpu' = gpu /\ raised' = "")]_vars

\* An enabled sprite of 256 zeros, placed across the origin corner, has been
\* drawn on the framebuffer that holds the rectangle.
C22_Witness ==
  /\ op = "draw_sprite" /\ args = <<0>>
  /\ gpu.sprite_enabled[0]
  /\ gpu.sprite_data[0] = Reshape(Blank)
  /\ gpu.sprite_x[0] = 0 - 3 /\ gpu.sprite_y[0] = 0 - 2
  /\ Cardinality(DOMAIN gpu.framebuffer) = 42

\* A solid sprite has been drawn at the far corner: only the 10 x 10 pixels
\* of it that are on the framebuffer are set.
C22_Clipped ==
  /\ op = "draw_sprite" /\ args = <<0>>
  /\ gpu.sprite_x[0] = 310 /\ gpu.sprite_y[0] = 190
  /\ DOMAIN gpu.framebuffer = (190..199) \X (310..319)

\* load_sprite() with an id beyond the last sprite has returned.
C22_BadId ==
  /\ op = "load_sprite" /\ args[1] = 64
  /\ gpu = NewGPU

\* The sprites of g that are enabled.
Enabled(g) == {n \in 0..63 : g.sprite_enabled[n]}

\* Those of the sprites E that cover cell k with a non-zero pixel.
Covering(g, E, k) == {n \in E : Covers(g, n, k)}

Highest(S) == CHOOSE n \in S : \A m \in S : m <= n

\* The framebuffer cells under any pixel of any of the sprites E.
Footprints(g, E) ==
  {<<g.sprite_y[n] + y, g.sprite_x[n] + x>> : n \in E, x \in 0..15, y \in 0..15}

\* What cell k shows with the sprites E composited on the framebuffer of g.
Layered(g, E, k) ==
  IF Covering(g, E, k) = {}
  THEN Cell(g.framebuffer, k)
  ELSE SpritePixel(g, Highest(Covering(g, E, k)),
                   k[2] - g.sprite_x[Highest(Covering(g, E, k))],
                   k[1] - g.sprite_y[Highest(Covering(g, E, k))])

\* C23: after draw_all_sprites() every framebuffer pixel under a non-zero
\* pixel of at least one enabled sprite holds the colour that the enabled
\* sprite of highest id covering it with a non-zero pixel has there; every
\* other framebuffer pixel, those under disabled sprites included, is
\* unchanged; sprite data, positions and enabled flags are unchanged.
C23_DrawAllSpritesLayers ==
  [][op' = "draw_all_sprites" =>
       /\ LET E == Enabled(gpu)
          IN \A k \in {c \in Footprints(gpu, E) : InBounds(gpu, c[2], c[1])}
                        \cup DOMAIN gpu.framebuffer
                        \cup DOMAIN gpu'.framebuffer :
               Cell(gpu'.framebuffer, k) = Layered(gpu, E, k)
       /\ gpu'.sprite_data = gpu.sprite_data
       /\ gpu'.sprite_x = gpu.sprite_x
       /\ gpu'.sprite_y = gpu.sprite_y
       /\ gpu'.sprite_enabled = gpu.sprite_enabled]_vars

\* Sprites 0 and 63 are enabled and overlap, sprite 63 with transparent
\* pixels: the framebuffer shows sprite 63 where both have a colour and
\* sprite 0 through the holes of sprite 63.
C23_Witness ==
  /\ op = "draw_all_sprites"
  /\ gpu.sprite_enabled[0] /\ gpu.sprite_enabled[63]
  /\ gpu.sprite_data[0] = Reshape(Solid)
  /\ gpu.sprite_data[63] = Reshape(Holed)
  /\ gpu.sprite_x[0] = 5 /\ gpu.sprite_y[0] = 5
  /\ gpu.sprite_x[63] = 8 /\ gpu.sprite_y[63] = 9
  /\ Cell(gpu.framebuffer, <<10, 9>>) = 2
  /\ Cell(gpu.framebuffer, <<11, 9>>) = 4
  /\ Cell(gpu.framebuffer, <<6, 6>>) = 4
  /\ Cell(gpu.framebuffer, <<23, 23>>) = 255

----------------------------------------------------------------------------
(* The background layers. NeilerGPU has no method that fills a layer or    *)
(* sets a register: its caller stores into bg_layer1, bg_layer2 and        *)
(* registers.                                                              *)

\* Layer contents: pixels at the four corners and inside, zero elsewhere.
Corners ==
  (<<0, 0>> :> 3) @@ (<<0, 319>> :> 4) @@ (<<199, 0>> :> 5)
    @@ (<<199, 319>> :> 6) @@ (<<3, 4>> :> 7) @@ (<<100, 160>> :> 255)
Stripe == [k \in {2} \X (0..9) |-> 8 + k[2]]
LayerData == {Corners, Stripe}

\* Scrolls that wrap below 0 and above the dimension, and within it.
ScrollCases ==
  {<<0 - 1, 0 - 1>>, <<321, 3>>, <<5, 200>>, <<0 - 316, 0 - 597>>, <<0, 0>>}

BackgroundOps == {"init", "draw_rect", "bg_layer", "registers",
                  "scroll_background"}

\* gpu.bg_layer1[...] = data or gpu.bg_layer2[...] = data
StoreLayer ==
  /\ op \in BackgroundOps
  /\ \E layer \in {1, 2}, data \in LayerData :
       SpriteCalled(Called(IF layer = 1 THEN [gpu EXCEPT !.bg_layer1 = data]
                                        ELSE [gpu EXCEPT !.bg_layer2 = data],
                           ""),
                    "bg_layer", <<layer, data>>)

\* gpu.registers['BG1_EN'] = value or gpu.registers['BG2_EN'] = value
StoreRegister ==
  /\ op \in BackgroundOps
  /\ \E value \in {0, 1} :
       \/ SpriteCalled(Called([gpu EXCEPT !.registers.BG1_EN = value], ""),
                       "registers", <<"BG1_EN", value>>)
       \/ SpriteCalled(Called([gpu EXCEPT !.registers.BG2_EN = value], ""),
                       "registers", <<"BG2_EN", value>>)

\* scroll_background() of a layer not scrolled yet
ScrollOnce ==
  /\ op \in BackgroundOps
  /\ \E layer \in {1, 2}, d \in ScrollCases :
       /\ layer = 1 => (gpu.bg1_scroll_x = 0 /\ gpu.bg1_scroll_y = 0)
       /\ layer = 2 => (gpu.bg2_scroll_x = 0 /\ gpu.bg2_scroll_y = 0)
       /\ SpriteCalled(Called(scroll_background(gpu, layer, d[1], d[2]), ""),
                       "scroll_background", <<layer, d[1], d[2]>>)

RenderBackground ==
  /\ op \in BackgroundOps
  /\ \E layer \in 0..3 :
       SpriteCalled(Called(render_background(gpu, layer), ""),
                    "render_background", <<layer>>)

NextBackground ==
  DrawRectFirst \/ StoreLayer \/ StoreRegister \/ ScrollOnce \/ RenderBackground
SpecBackground == Init /\ [][NextBackground]_vars

\* What render_background(layer) samples for framebuffer cell <<y, x>>.
Sample(g, layer, c) ==
  IF layer = 1
  THEN Cell(g.bg_layer1, <<(c[1] + g.bg1_scroll_y) % g.height,
                           (c[2] + g.bg1_scroll_x) % g.width>>)
  ELSE Cell(g.bg_layer2, <<(c[1] + g.bg2_scroll_y) % g.height,
                           (c[2] + g.bg2_scroll_x) % g.width>>)

\* The framebuffer cells any of which may differ between g and h or show a
\* pixel of a layer: the non-zero cells of either framebuffer and the cells
\* that sample a non-zero cell of a layer of g.
CellsOfInterest(g, h) ==
  DOMAIN g.framebuffer \cup DOMAIN h.framebuffer
    \cup {<<(k[1] - g.bg1_scroll_y) % g.height,
            (k[2] - g.bg1_scroll_x) % g.width>> : k \in DOMAIN g.bg_layer1}
    \cup {<<(k[1] - g.bg2_scroll_y) % g.height,
            (k[2] - g.bg2_scroll_x) % g.width>> : k \in DOMAIN g.bg_layer2}

\* C24: after render_background(layer), for layer 1 and for layer 2 alike,
\* every framebuffer pixel (x, y) whose sample
\* layer[(y + scrollY) mod height][(x + scrollX) mod width] is non-zero equals
\* that sample, and every pixel whose sample is 0 is unchanged.
C24_RenderBackground ==
  [][(op' = "render_background" /\ args'[1] \in {1, 2}) =>
       \A c \in CellsOfInterest(gpu, gpu') :
         Cell(gpu'.framebuffer, c) =
           IF Sample(gpu, args'[1], c) # 0
           THEN Sample(gpu, args'[1], c)
           ELSE Cell(gpu.framebuffer, c)]_vars

\* The same for layer 1 while register BG1_EN is not 0.
C24_Layer1 ==
  [][(op' = "render_background" /\ args'[1] = 1 /\ gpu.registers.BG1_EN # 0) =>
       \A c \in CellsOfInterest(gpu, gpu') :
         Cell(gpu'.framebuffer, c) =
           IF Sample(gpu, 1, c) # 0
           THEN Sample(gpu, 1, c)
           ELSE Cell(gpu.framebuffer, c)]_vars

\* render_background(2) has returned with layer 2 holding pixels and the
\* framebuffer clear.
C24_Layer2NotRendered ==
  /\ op = "render_background" /\ args = <<2>>
  /\ gpu.bg_layer2 = Corners
  /\ gpu.registers.BG2_EN = 1
  /\ gpu.framebuffer = <<>>

\* render_background(1) has drawn layer 1, scrolled by (-1, -1).
C24_Scrolled ==
  /\ op = "render_background" /\ args = <<1>>
  /\ gpu.bg1_scroll_x = 319 /\ gpu.bg1_scroll_y = 199
  /\ gpu.bg_layer1 = Corners
  /\ Cell(gpu.framebuffer, <<1, 1>>) = 3
  /\ Cell(gpu.framebuffer, <<0, 0>>) = 6
  /\ Cell(gpu.framebuffer, <<4, 5>>) = 7

----------------------------------------------------------------------------
(* scroll_background() called again and again.                             *)

\* The deltas are multiples of 64 in x and of 40 in y, negative ones and
\* ones beyond the dimension among them, so that the offsets they reach
\* stay few; the layers are both, and one below and one above them.
ScrollDx == {0 - 64, 384}
ScrollDy == {0 - 40, 440, 0}
ScrollLayers == 0..3

ScrollBackground ==
  \E layer \in ScrollLayers, dx \in ScrollDx, dy \in ScrollDy :
    SpriteCalled(Called(scroll_background(gpu, layer, dx, dy), ""),
                 "scroll_background", <<layer, dx, dy>>)

NextScroll == ScrollBackground
SpecScroll == Init /\ [][NextScroll]_vars

\* The scroll offsets of a layer.
Offset(g, layer) ==
  IF layer = 1 THEN <<g.bg1_scroll_x, g.bg1_scroll_y>>
               ELSE <<g.bg2_scroll_x, g.bg2_scroll_y>>

\* C25: after every scroll_background(layer, dx, dy), dx and dy any integers,
\* each layer's offset is within 0 <= scrollX < width and
\* 0 <= scrollY < height; the scrolled layer's offset is its offset before
\* plus the delta, modulo the dimension (so it is the sum of the deltas
\* applied to that layer modulo the dimension), and the other layer's offset
\* is unchanged; a call with layer outside {1, 2} changes nothing; scrolling
\* by (dx, dy) and then by (-dx, -dy) restores the offset.
C25_ScrollWraps ==
  [][op' = "scroll_background" =>
       /\ \A l \in {1, 2} :
            /\ Offset(gpu', l)[1] \in 0..(gpu'.width - 1)
            /\ Offset(gpu', l)[2] \in 0..(gpu'.height - 1)
            /\ l # args'[1] => Offset(gpu', l) = Offset(gpu, l)
            /\ l = args'[1] =>
                 /\ (Offset(gpu', l)[1] - Offset(gpu, l)[1] - args'[2])
                      % gpu.width = 0
                 /\ (Offset(gpu', l)[2] - Offset(gpu, l)[2] - args'[3])
                      % gpu.height = 0
                 /\ Offset(scroll_background(gpu', l, 0 - args'[2],
                                             0 - args'[3]), l)
                      = Offset(gpu, l)
       /\ args'[1] \notin {1, 2} => gpu' = gpu
       /\ [gpu' EXCEPT !.bg1_scroll_x = 0, !.bg1_scroll_y = 0,
                       !.bg2_scroll_x = 0, !.bg2_scroll_y = 0]
            = [gpu EXCEPT !.bg1_scroll_x = 0, !.bg1_scroll_y = 0,
                          !.bg2_scroll_x = 0, !.bg2_scroll_y = 0]]_vars

\* Layer 2 has been scrolled by (384, -40) while layer 1 is at another
\* offset.
C25_Witness ==
  /\ op = "scroll_background" /\ args = <<2, 384, 0 - 40>>
  /\ gpu.bg1_scroll_x = 192 /\ gpu.bg1_scroll_y = 160
  /\ gpu.bg2_scroll_x = 256 /\ gpu.bg2_scroll_y = 0

----------------------------------------------------------------------------
(* Pixel access: set_pixel(), get_pixel() and clear_screen() on a          *)
(* framebuffer that is clear, holds a rectangle, or has been cleared to a  *)
(* colour.                                                                 *)

\* Coordinates on each edge of the framebuffer and one step beyond it.
PixelX == {0 - 1, 0, 4, 319, 320}
PixelY == {0 - 1, 0, 3, 199, 200}
PixelColors == {0, 7, 255}

SetPixel ==
  /\ op \in {"init", "draw_rect", "clear_screen"}
  /\ \E x \in PixelX, y \in PixelY, color \in PixelColors :
       /\ gpu' = set_pixel(Drawing(gpu, <<>>), x, y, color).gpu
       /\ pixels' = <<<<x, y>>>>
       /\ args' = <<x, y, color>>
  /\ op' = "set_pixel"
  /\ raised' = ""
  /\ UNCHANGED <<hostVars, asmVars, cpuVars, frame>>

GetPixel ==
  /\ op \in {"init", "draw_rect", "clear_screen", "set_pixel"}
  /\ \E x \in PixelX, y \in PixelY :
       /\ retval' = get_pixel(gpu, x, y)
       /\ args' = <<x, y>>
  /\ op' = "get_pixel"
  /\ raised' = ""
  /\ pixels' = <<>>
  /\ UNCHANGED <<hostVars, asmVars, cpu, pc, max_cycles, cycle_count, gpu, frame>>

ClearScreen ==
  /\ op \in {"init", "draw_rect", "set_pixel"}
  /\ \E color \in PixelColors :
       SpriteCalled(Called(clear_screen(gpu, color), ""), "clear_screen",
                    <<color>>)

NextPixels == DrawRectFirst \/ SetPixel \/ GetPixel \/ ClearScreen
SpecPixels == Init /\ [][NextPixels]_vars

\* The framebuffer cells in which g and h, filled with the same value,
\* differ.
ChangedPixels(g, h) ==
  {k \in DOMAIN g.framebuffer \cup DOMAIN h.framebuffer :
     Pixel(h, k) # Pixel(g, k)}

\* C26: set_pixel(x, y, c) with 0 <= x < width and 0 <= y < height changes
\* framebuffer cell (x, y) to c and no other cell, and a get_pixel(x, y)
\* that follows returns c; with any other coordinates set_pixel changes
\* nothing and get_pixel returns 0; neither raises, and get_pixel changes
\* nothing; clear_screen(c) leaves every cell equal to c.
C26_PixelAccess ==
  [][/\ op' = "set_pixel" =>
          /\ raised' = ""
          /\ IF 0 <= args'[1] /\ args'[1] < gpu.width
                  /\ 0 <= args'[2] /\ args'[2] < gpu.height
             THEN /\ Pixel(gpu', <<args'[2], args'[1]>>) = args'[3]
                  /\ gpu'.cleared = gpu.cleared
                  /\ ChangedPixels(gpu, gpu') \subseteq {<<args'[2], args'[1]>>}
                  /\ get_pixel(gpu', args'[1], args'[2]) = args'[3]
             ELSE /\ gpu' = gpu
                  /\ get_pixel(gpu', args'[1], args'[2]) = 0
     /\ op' = "get_pixel" =>
          /\ raised' = ""
          /\ gpu' = gpu
          /\ retval' = IF 0 <= args'[1] /\ args'[1] < gpu.width
                            /\ 0 <= args'[2] /\ args'[2] < gpu.height
                       THEN Pixel(gpu, <<args'[2], args'[1]>>)
                       ELSE 0
     /\ op' = "clear_screen" =>
          \A x \in 0..(gpu'.width - 1), y \in 0..(gpu'.height - 1) :
            Pixel(gpu', <<y, x>>) = args'[1]]_vars

\* get_pixel(319, 199) has returned the colour that set_pixel(319, 199, 7)
\* stored on a framebuffer cleared to 255.
C26_Witness ==
  /\ op = "get_pixel" /\ args = <<319, 199>>
  /\ retval = 7
  /\ Pixel(gpu, <<199, 319>>) = 7
  /\ Pixel(gpu, <<199, 318>>) = 255
  /\ Pixel(gpu, <<0, 0>>) = 255

\* set_pixel(320, -1, 7) has left a clear framebuffer clear.
C26_OutOfBounds ==
  /\ op = "set_pixel" /\ args = <<320, 0 - 1, 7>>
  /\ gpu.framebuffer = <<>> /\ gpu.cleared = 0

\* set_pixel(4, 3, 0) has cleared a pixel of the rectangle.
C26_StoredZero ==
  /\ op = "set_pixel" /\ args = <<4, 3, 0>>
  /\ Cardinality(DOMAIN gpu.framebuffer) = 41


\* ---------------------------------------------------------------------------
\* The colour conversions, each called on a freshly constructed GPU
\* ---------------------------------------------------------------------------

ChannelSamples == {0, 123, 255}

\* Every value of each channel, beside sampled values of the other two.
PackCases ==
  (Byte \X ChannelSamples \X ChannelSamples)
    \cup (ChannelSamples \X Byte \X ChannelSamples)
    \cup (ChannelSamples \X ChannelSamples \X Byte)

Words == 0..65535

RgbToRgb565 ==
  /\ op = "init"
  /\ \E a \in PackCases :
       /\ retval' = rgb_to_rgb565(a[1], a[2], a[3])
       /\ args' = a
  /\ op' = "rgb_to_rgb565"
  /\ UNCHANGED <<hostVars, asmVars, cpu, pc, max_cycles, cycle_count, raised, gpuVars>>

Rgb565ToRgb ==
  /\ op = "init"
  /\ \E color \in Words :
       /\ retval' = rgb565_to_rgb(color)
       /\ args' = <<color>>
  /\ op' = "rgb565_to_rgb"
  /\ UNCHANGED <<hostVars, asmVars, cpu, pc, max_cycles, cycle_count, raised, gpuVars>>

NextPalette == RgbToRgb565 \/ Rgb565ToRgb

SpecPalette == Init /\ [][NextPalette]_vars

\* rgb_to_rgb565(i, i, i) for every i in 0..255
GreyRamp == [i \in Byte |-> rgb_to_rgb565(i, i, i)]

\* C27: for r, g, b in 0..255 rgb_to_rgb565(r, g, b) is in 0..65535 and
\* rgb565_to_rgb of it is (r AND 0xF8, g AND 0xFC, b AND 0xF8), that is each
\* channel with its low 3, 2 and 3 bits cleared; for every c in 0..65535
\* rgb_to_rgb565 of rgb565_to_rgb(c) is c again; and entry i of the palette
\* of a constructed GPU is rgb_to_rgb565(i, i, i).
C27_Rgb565 ==
  /\ op = "rgb_to_rgb565" =>
       /\ retval \in Words
       /\ rgb565_to_rgb(retval) =
            <<args[1] - (args[1] % 8), args[2] - (args[2] % 4),
              args[3] - (args[3] % 8)>>
  /\ op = "rgb565_to_rgb" =>
       rgb_to_rgb565(retval[1], retval[2], retval[3]) = args[1]
  /\ gpu.palette = GreyRamp

C27_Witness ==
  /\ op = "rgb_to_rgb565" /\ args = <<255, 123, 7>> /\ retval = 64448
  /\ gpu.palette[255] = 65535 /\ gpu.palette[7] = 32

C27_Unpacked ==
  /\ op = "rgb565_to_rgb" /\ args = <<65535>>
  /\ retval = <<248, 252, 248>>


\* ---------------------------------------------------------------------------
\* Lines that emit nothing, alone and inside a program
\* ---------------------------------------------------------------------------

\* Lines that start with no pattern of the table and are no label.
SkipLines ==
  {"FOO BAR", "foo", "  .org 0x200", "DB 5", "MOVE A, 1", "L1", "MOV",
   "FOO ; x:", "1 NOP"}
\* Empty, comment-only and label lines.
QuietLines == {"", "  \t", "; only a comment", "L2:", "  l2: ; here"}

SkipPrograms ==
  {<<"JMP L1", "MOV A, 1", "L1:", "HLT">>,
   <<"L1:", "INC A", "CMP A, 5", "JNZ L1">>,
   <<"CALL SKIP", "HLT", "SKIP:", "MOV A, L1", "RET">>}

InsertAt(lines, k, line) ==
  SubSeq(lines, 1, k - 1) \o <<line>> \o SubSeq(lines, k, Len(lines))
RemoveAt(lines, k) ==
  SubSeq(lines, 1, k - 1) \o SubSeq(lines, k + 1, Len(lines))

\* Each program with one such line put at each place.
SkipSources ==
  {Join(InsertAt(c[1], c[2], c[3])) :
     c \in {d \in SkipPrograms \X (1..6) \X (SkipLines \cup QuietLines) :
              d[2] <= Len(d[1]) + 1}}

AssembleSkipLine == AssembleLine(SkipLines \cup QuietLines, 1)
AssembleSkipSource == Assemble(SkipSources, 1)

NextSkip == AssembleSkipLine \/ AssembleSkipSource
SpecSkip == Init /\ [][NextSkip]_vars

\* The line as assemble_line looks at it.
Seen(line) == Upper(Strip(CutComment(line)))
Unmatched(line) ==
  /\ Seen(line) # ""
  /\ ~EndsWith(Seen(line), ":")
  /\ \A i \in 1..Len(opcodes) : ~StartsWith(Seen(line), opcodes[i][1])
Quiet(line) == Seen(line) = "" \/ EndsWith(Seen(line), ":")

\* Every label of `fewer` is bound to the same address in `labels`.
SameLabels(fewer, labels) ==
  \A l \in DOMAIN fewer : l \in DOMAIN labels /\ labels[l] = fewer[l]

\* Line k of `lines` emitted nothing, and the other lines' bytes and labels
\* are those of the program without it.
AsIfAbsent(lines, k) ==
  /\ line_codes[k] = <<>>
  /\ AssembleLines(NewAssembler, RemoveAt(lines, k)).codes = RemoveAt(line_codes, k)
  /\ SameLabels(AssembleLines(NewAssembler, RemoveAt(lines, k)).asm.labels,
                asm.labels)

\* C28: a non-empty line that is no label and starts with none of the table's
\* patterns makes assemble() emit no byte for it and raise nothing, the bytes
\* and label addresses of all other lines being those of the source without
\* the line; a label line and an empty or comment-only line emit no byte
\* either; assemble_line() returns no byte for any of these lines.
C28_UnmatchedLinesSkipped ==
  /\ op = "assemble" =>
       /\ raised = ""
       /\ \A k \in 1..Len(line_codes) :
            /\ Unmatched(Split(source_code, "\n")[k]) =>
                 AsIfAbsent(Split(source_code, "\n"), k)
            /\ Quiet(Split(source_code, "\n")[k]) => line_codes[k] = <<>>
  /\ (op = "assemble_line" /\ (Unmatched(source_code) \/ Quiet(source_code))) =>
       machine_code = <<>> /\ raised = ""

C28_Witness ==
  /\ op = "assemble"
  /\ source_code = Join(<<"JMP L1", "MOVE A, 1", "MOV A, 1", "L1:", "HLT">>)
  /\ Unmatched("MOVE A, 1")
  /\ line_codes = <<<<112, 3, 2>>, <<>>, <<1, 1>>, <<>>, <<255>>>>
  /\ asm.labels["L1"] = 517

C28_LabelInComment ==
  /\ op = "assemble"
  /\ source_code = Join(<<"L1:", "FOO ; x:", "INC A", "CMP A, 5", "JNZ L1">>)
  /\ DOMAIN asm.labels = {"L1", "FOO ; X"}
  /\ machine_code = <<68, 97, 5, 114, 0, 2>>


\* ---------------------------------------------------------------------------
\* Every instruction, run after a prefix that sets the flags
\* ---------------------------------------------------------------------------

\* Prefixes leaving (Zero, Carry, Overflow, Negative) = 0000, 1110, 0011,
\* 0100 and 0001.
FlagPrefixes ==
  {<<>>,
   <<1, 128, 2, 128, 64>>,     \* MOV A, 128 / MOV B, 128 / ADD A, B: A = 0
   <<1, 100, 2, 100, 64>>,     \* MOV A, 100 / MOV B, 100 / ADD A, B: A = 200
   <<1, 200, 65, 100>>,        \* MOV A, 200 / ADD A, 100: A = 44
   <<1, 128>>}                 \* MOV A, 128
FlagOperands == {0, 3, 200}

\* prefix / the instruction with operand byte b / HLT
FlagPrograms ==
  {f \o InstrTail(o, b) :
     f \in FlagPrefixes, o \in DOMAIN cpu_opcodes, b \in FlagOperands}

\* cpu.load_program(program) on the new CPU
LoadFlagCase ==
  /\ op = "init"
  /\ \E p \in FlagPrograms : Load(p, ORIGIN)

NextFlags == LoadFlagCase \/ StepCase
SpecFlags == Init /\ [][NextFlags]_vars

\* ADD, SUB, SHL, SHR and CMP
CarryOpcodes == {64, 65, 66, 67, 84, 85, 96, 97}
\* STORE, PUSH, OUT, the jumps, CALL, RET, NOP and HLT
FlagFreeOpcodes ==
  {34, 35, 38, 39, 48, 49, 145} \cup (112..117) \cup {128, 129, 0, 255}

\* C29: no instruction changes the Interrupt flag; only ADD, SUB, SHL, SHR
\* and CMP change Carry and only ADD A, B changes Overflow, every other
\* instruction leaving Carry and Overflow as they were; STORE, PUSH, OUT,
\* the jumps, CALL, RET, NOP and HLT leave Zero and Negative as they were too.
C29_FlagFrame ==
  [][Executes(DOMAIN cpu_opcodes) =>
       /\ cpu'.FLAG_INTERRUPT = cpu.FLAG_INTERRUPT
       /\ OpcodeAt(cpu) \notin CarryOpcodes => cpu'.FLAG_CARRY = cpu.FLAG_CARRY
       /\ OpcodeAt(cpu) # 64 => cpu'.FLAG_OVERFLOW = cpu.FLAG_OVERFLOW
       /\ OpcodeAt(cpu) \in FlagFreeOpcodes =>
            /\ cpu'.FLAG_ZERO = cpu.FLAG_ZERO
            /\ cpu'.FLAG_NEGATIVE = cpu.FLAG_NEGATIVE]_vars

\* C29's case: MOV A, 200 has run with Zero, Carry and Overflow set: Carry
\* and Overflow are still set, Zero and Negative describe 200.
C29_Witness ==
  /\ op = "step" /\ cpu.PC = 519
  /\ read_byte(cpu, 516) = 64 /\ read_byte(cpu, 517) = 1
  /\ cpu.A = 200 /\ cpu.B = 128
  /\ cpu.FLAG_CARRY = 1 /\ cpu.FLAG_OVERFLOW = 1
  /\ cpu.FLAG_ZERO = 0 /\ cpu.FLAG_NEGATIVE = 1

\* PUSH A has run with Zero, Carry and Overflow set: all four flags are as
\* ADD A, B left them.
C29_PushKeepsFlags ==
  /\ op = "step" /\ cpu.PC = 518 /\ cpu.SP = 254
  /\ read_byte(cpu, 516) = 64 /\ read_byte(cpu, 517) = 48
  /\ cpu.FLAG_CARRY = 1 /\ cpu.FLAG_OVERFLOW = 1
  /\ cpu.FLAG_ZERO = 1 /\ cpu.FLAG_NEGATIVE = 0


\* ---------------------------------------------------------------------------
\* ADD A, B on every pair of operands
\* ---------------------------------------------------------------------------

\* MOV A, a / MOV B, b / ADD A, B / HLT
AddPrograms == {AfterAB(a, b, 64) : a \in Byte, b \in Byte}

\* cpu.load_program(program) on the new CPU
LoadAdd ==
  /\ op = "init"
  /\ \E p \in AddPrograms : Load(p, ORIGIN)

NextAdd == LoadAdd \/ StepCase
SpecAdd == Init /\ [][NextAdd]_vars

\* The byte v read as a signed 8-bit value.
Signed(v) == IF v >= 128 THEN v - 256 ELSE v
SignBit(v) == v \div 128

\* C30: after ADD A, B with A = a and B = b, a and b any bytes, Overflow is 1
\* exactly when the sum of a and b read as signed 8-bit values is outside
\* -128..127, which is when a and b have the same sign bit and the 8-bit
\* result the other one; otherwise it is 0.
C30_AddOverflow ==
  [][Executes({64}) =>
       /\ cpu'.FLAG_OVERFLOW \in {0, 1}
       /\ cpu'.FLAG_OVERFLOW = 1 <=>
            Signed(cpu.A) + Signed(cpu.B) \notin (0 - 128)..127
       /\ cpu'.FLAG_OVERFLOW = 1 <=>
            /\ SignBit(cpu.A) = SignBit(cpu.B)
            /\ SignBit(cpu'.A) # SignBit(cpu.A)]_vars

\* C30's case: 100 + 100 leaves 200, which reads -56: Overflow without Carry.
C30_Witness ==
  /\ op = "step" /\ cpu.PC = 517
  /\ read_byte(cpu, 513) = 100 /\ read_byte(cpu, 515) = 100
  /\ read_byte(cpu, 516) = 64
  /\ cpu.A = 200 /\ cpu.FLAG_OVERFLOW = 1 /\ cpu.FLAG_CARRY = 0

\* 255 + 255 (-1 + -1 = -2) leaves 254: Carry without Overflow.
C30_CarryAlone ==
  /\ op = "step" /\ cpu.PC = 517
  /\ read_byte(cpu, 513) = 255 /\ read_byte(cpu, 515) = 255
  /\ read_byte(cpu, 516) = 64
  /\ cpu.A = 254 /\ cpu.FLAG_OVERFLOW = 0 /\ cpu.FLAG_CARRY = 1


\* ---------------------------------------------------------------------------
\* Every opcode byte, known or not, stepped at 0x0200 and at 0xFFFF
\* ---------------------------------------------------------------------------

\* <<program, start_address>>: every instruction after the flag prefixes,
\* the jumps to several targets, and every byte alone at 0xFFFF, its
\* operands being the bytes at 0x0000 and 0x0001.
WidthCases ==
  {<<p, ORIGIN>> : p \in FlagPrograms \cup JumpPrograms}
    \cup {<<<<b>>, ORIGIN>> : b \in Byte}
    \cup {<<<<b>>, 65535>> : b \in Byte}

\* cpu.load_program(program, start_address) on the new CPU
LoadWidthCase ==
  /\ op = "init"
  /\ \E c \in WidthCases : Load(c[1], c[2])

NextWidth == LoadWidthCase \/ StepCase
SpecWidth == Init /\ [][NextWidth]_vars

\* The instruction at c.PC sets PC itself: JMP, a conditional jump whose
\* flag says so, CALL and RET.
Transfers(c) ==
  \/ OpcodeAt(c) \in {112, 128, 129}
  \/ OpcodeAt(c) = 113 /\ c.FLAG_ZERO = 1
  \/ OpcodeAt(c) = 114 /\ c.FLAG_ZERO = 0
  \/ OpcodeAt(c) = 115 /\ c.FLAG_CARRY = 1
  \/ OpcodeAt(c) = 116 /\ c.FLAG_CARRY = 0
  \/ OpcodeAt(c) = 117 /\ c.FLAG_NEGATIVE = 1

\* C31: the cycle counter never decreases; a step() that returns True has
\* executed a known opcode and increased the counter by exactly 1, one that
\* returns False leaves the counter as it was; and a step() at address p on
\* a known opcode of declared operand width w that is no JMP, taken
\* conditional jump, CALL or RET leaves PC = (p + 1 + w) mod 65536.
C31_CyclesAndPC ==
  [][/\ cpu'.cycles >= cpu.cycles
     /\ op' = "step" =>
          /\ retval' \in BOOLEAN
          /\ retval' = TRUE <=> (~cpu.halted /\ OpcodeAt(cpu) \in DOMAIN cpu_opcodes)
          /\ retval' = TRUE => cpu'.cycles = cpu.cycles + 1
          /\ retval' = FALSE => cpu'.cycles = cpu.cycles
     /\ (Executes(DOMAIN cpu_opcodes) /\ ~Transfers(cpu)) =>
          cpu'.PC = (cpu.PC + 1 + cpu_opcodes[OpcodeAt(cpu)][2]) % 65536]_vars

\* C31's case: LOAD A, [addr] alone at 0xFFFF has run, its operand taken
\* from 0x0000 and 0x0001: PC = 2 and one cycle counted.
C31_Witness ==
  /\ op = "step" /\ retval = TRUE
  /\ read_byte(cpu, 65535) = 32
  /\ cpu.PC = 2 /\ cpu.cycles = 1 /\ ~cpu.halted

\* An unknown opcode was stepped: False, halted, no cycle counted.
C31_UnknownOpcode ==
  /\ op = "step" /\ retval = FALSE
  /\ read_byte(cpu, 512) = 153
  /\ cpu.PC = 513 /\ cpu.cycles = 0 /\ cpu.halted

\* JZ, not taken, moved PC past its two operand bytes.
C31_JumpNotTaken ==
  /\ op = "step" /\ retval = TRUE
  /\ read_byte(cpu, 512) = 113
  /\ cpu.PC = 515 /\ cpu.cycles = 1 /\ cpu.FLAG_ZERO = 0


\* ---------------------------------------------------------------------------
\* Addresses beyond 0xFFFF
\* ---------------------------------------------------------------------------

\* C32: every memory access of the CPU takes its address modulo 65536 and
\* never fails; in particular load_program(bytes, origin) raises nothing and
\* leaves byte i at address (origin + i) mod 65536, the bytes that pass
\* 0xFFFF going to address 0 onward.
C32_AddressesWrap ==
  /\ raised = ""
  /\ op = "load_program" =>
       \A i \in 1..Len(args[1]) :
         Cell(cpu.memory, (args[2] + i - 1) % 65536) = args[1][i]

\* The part of C32 that concerns step(): the opcode at 0xFFFF is followed by
\* the operand bytes at 0x0000 and 0x0001, LOAD reads and STORE writes the
\* cell its operand names, and nothing is raised.
C32_StepAccessesWrap ==
  [][Executes(DOMAIN cpu_opcodes) =>
       /\ raised' = ""
       /\ OpcodeAt(cpu) \in 1..6 =>
            cpu'[RegisterWrites[OpcodeAt(cpu)]] =
              Cell(cpu.memory, (cpu.PC + 1) % 65536)
       /\ OpcodeAt(cpu) \in {32, 33} =>
            cpu'[RegisterWrites[OpcodeAt(cpu)]] =
              Cell(cpu.memory,
                   Cell(cpu.memory, (cpu.PC + 1) % 65536)
                     + 256 * Cell(cpu.memory, (cpu.PC + 2) % 65536))
       /\ OpcodeAt(cpu) \in {34, 35} =>
            Cell(cpu'.memory,
                 Cell(cpu.memory, (cpu.PC + 1) % 65536)
                   + 256 * Cell(cpu.memory, (cpu.PC + 2) % 65536))
              = cpu[IF OpcodeAt(cpu) = 34 THEN "A" ELSE "B"]]_vars

\* STORE A, [addr] alone at 0xFFFF stored A at the address held by 0x0000
\* and 0x0001 and left PC = 2.
C32_StoreAcrossTheTop ==
  /\ op = "step" /\ retval = TRUE
  /\ read_byte(cpu, 65535) = 34 /\ cpu.PC = 2 /\ ~cpu.halted

\* load_program of two bytes at 0xFFFF has raised IndexError.
C32_Overrun ==
  /\ op = "load_program" /\ args = <<<<68, 255>>, 65535>>
  /\ raised = "IndexError"
  /\ cpu.memory = (65535 :> 68) /\ cpu.PC = 512


\* ---------------------------------------------------------------------------
\* The widths of registers, flags and cells
\* ---------------------------------------------------------------------------

\* cpu.load_program(program, start_address) on the new CPU: the single
\* instructions on every operand value, and every opcode after the flag
\* prefixes and at 0xFFFF
LoadRangeCase ==
  /\ op = "init"
  /\ \E c \in InstrCases \cup WidthCases : Load(c[1], c[2])

NextRange == LoadRangeCase \/ StepCase
SpecRange == Init /\ [][NextRange]_vars

Flags ==
  {"FLAG_ZERO", "FLAG_CARRY", "FLAG_OVERFLOW", "FLAG_NEGATIVE", "FLAG_INTERRUPT"}

\* C33: in every state reached from the new CPU by load_program of bytes
\* and step() calls, A, B, C, D, X, Y and SP are in 0..255, PC is in
\* 0..65535, every flag is 0 or 1, every memory cell is in 0..255 and every
\* port written by OUT is in 0..255.
C33_Widths ==
  /\ \A r \in Registers : cpu[r] \in Byte
  /\ cpu.SP \in Byte
  /\ cpu.PC \in 0..65535
  /\ \A f \in Flags : cpu[f] \in {0, 1}
  /\ DOMAIN cpu.memory \subseteq 0..65535
  /\ \A k \in DOMAIN cpu.memory : cpu.memory[k] \in Byte
  /\ DOMAIN cpu.io_ports \subseteq Byte
  /\ \A k \in DOMAIN cpu.io_ports : cpu.io_ports[k] \in Byte

\* C33's case: MOV A, 255 / MOV B, 1 / INC A has run and left A = 0.
C33_Witness ==
  /\ op = "step" /\ cpu.PC = 517
  /\ read_byte(cpu, 513) = 255 /\ read_byte(cpu, 516) = 68
  /\ cpu.A = 0 /\ cpu.FLAG_ZERO = 1

\* OUT has written A = 200 to port 3.
C33_PortWritten ==
  /\ op = "step" /\ Cell(cpu.io_ports, 3) = 200 /\ cpu.A = 200


\* ---------------------------------------------------------------------------
\* The counting program of the CPU's self-test, run to its end
\* ---------------------------------------------------------------------------

MaxCountCycles == 800    \* instructions the counting CPU executes

\* MOV A, 0 / ADD A, 1 / CMP A, n / JNZ 0x0202 / HLT
CountProgram(n) == <<1, 0, 65, 1, 97, n, 114, 2, 2, 255>>
CountLimits == 1..255

\* cpu.load_program(program) on the new CPU
LoadCount ==
  /\ op = "init"
  /\ \E n \in CountLimits : Load(CountProgram(n), ORIGIN)

\* cpu.run() is entered, without a budget
RunCount ==
  /\ pc = "idle"
  /\ op = "load_program"
  /\ pc' = "run"
  /\ max_cycles' = <<>>
  /\ cycle_count' = 0
  /\ op' = "run"
  /\ raised' = ""
  /\ args' = <<>>
  /\ UNCHANGED <<hostVars, asmVars, gpuVars, cpu, retval>>

\* one iteration of run()'s while loop: self.step(), cycle_count += 1
RunCountLoop ==
  /\ pc = "run"
  /\ RunContinues(cpu, max_cycles, cycle_count)
  /\ cpu.cycles < MaxCountCycles
  /\ cpu' = step(cpu).cpu
  /\ cycle_count' = cycle_count + 1
  /\ UNCHANGED <<hostVars, asmVars, gpuVars, pc, max_cycles, op, retval, raised, args>>

NextCount == LoadCount \/ RunCount \/ RunCountLoop \/ RunReturn

\* run() can take a step: it is in its loop, and the loop either ends or
\* has instructions left to execute.
RunEnabled ==
  /\ pc = "run"
  /\ RunContinues(cpu, max_cycles, cycle_count) => cpu.cycles < MaxCountCycles

\* run() is one thread of control: once entered, its loop goes on and its
\* return is taken when the loop ends (weak fairness of the two steps of
\* run(), their enabling condition written out).
SpecCount ==
  /\ Init /\ [][NextCount]_vars
  /\ ([]<>(~RunEnabled) \/ []<><<RunCountLoop \/ RunReturn>>_vars)

\* The compare immediate of the loaded counting program.
CountLimit == read_byte(cpu, 517)

\* run() has returned.
Returned == op = "run" /\ pc = "idle"

\* C34: the counting program with compare immediate n in 1..255 (10 in the
\* built-in test), loaded at 0x0200 into a new CPU and run without a budget,
\* eventually halts, and when run() has returned the CPU is halted with
\* A = n, Zero = 1 and the cycle counter at 3n + 2 (32 for n = 10).
C34_CountingHalts ==
  /\ [](Returned =>
          /\ cpu.halted
          /\ cpu.A = CountLimit /\ cpu.FLAG_ZERO = 1
          /\ cpu.cycles = 3 * CountLimit + 2
          /\ retval = 3 * CountLimit + 2)
  /\ (pc = "run") ~> (Returned /\ cpu.halted)

\* C34's case: the built-in program has halted with A = 10 after 32 cycles.
C34_Witness ==
  /\ Returned /\ cpu.halted
  /\ read_byte(cpu, 517) = 10
  /\ cpu.A = 10 /\ cpu.FLAG_ZERO = 1 /\ cpu.cycles = 32 /\ retval = 32

\* The longest count: n = 255 halts after 767 cycles.
C34_LongestCount ==
  /\ Returned /\ cpu.halted
  /\ cpu.A = 255 /\ cpu.cycles = 767


\* ---------------------------------------------------------------------------
\* draw_circle, each call made on a freshly constructed GPU
\* ---------------------------------------------------------------------------

CircleCentres ==
  {<<0, 0>>, <<5, 5>>, <<160, 100>>, <<319, 199>>, <<0 - 3, 2>>}
CircleRadii == (0 - 2)..10

\* The model follows draw_circle's loop while it has made fewer than
\* MaxCircleCalls calls of set_pixel.
MaxCircleCalls == 1000

\* draw_circle(cx, cy, radius, color, fill) is called and tests its loop:
\* with x < y it returns at once.
DrawCircleCall ==
  /\ op = "init"
  /\ \E c \in CircleCentres, radius \in CircleRadii, fill \in BOOLEAN :
       /\ frame' = IF radius >= 0
                   THEN circle_setup(c[1], c[2], radius, 1, fill)
                   ELSE <<>>
       /\ args' = <<c[1], c[2], radius, 1, fill>>
  /\ pixels' = <<>>
  /\ op' = "draw_circle"
  /\ raised' = ""
  /\ UNCHANGED <<hostVars, asmVars, cpuVars, gpu>>

\* One iteration of the loop: the set_pixel calls, the two updates, and
\* the test `x >= y` that ends the loop (and the call).
DrawCircleLoop ==
  /\ op = "draw_circle"
  /\ frame # <<>>
  /\ Len(pixels) < MaxCircleCalls
  /\ gpu' = set_pixels(Drawing(gpu, pixels), circle_calls(frame), frame.color).gpu
  /\ pixels' = pixels \o circle_calls(frame)
  /\ frame' = IF circle_step(frame).x >= circle_step(frame).y
              THEN circle_step(frame)
              ELSE <<>>
  /\ UNCHANGED <<hostVars, asmVars, cpuVars, op, raised, args>>

NextCircle == DrawCircleCall \/ DrawCircleLoop
SpecCircle == Init /\ [][NextCircle]_vars

Range(s) == {s[i] : i \in DOMAIN s}

\* The eight images of p under the reflections about the centre c
Reflections(p, c) ==
  {<<c[1] + sx * (p[1] - c[1]), c[2] + sy * (p[2] - c[2])>> :
     sx \in {0 - 1, 1}, sy \in {0 - 1, 1}}
    \cup {<<c[1] + sx * (p[2] - c[2]), c[2] + sy * (p[1] - c[1])>> :
            sx \in {0 - 1, 1}, sy \in {0 - 1, 1}}

\* The pixels the outline variant plots from the locals f on
RECURSIVE OutlineFrom(_)
OutlineFrom(f) ==
  IF f.x < f.y THEN {}
  ELSE Range(circle_outline(f)) \cup OutlineFrom(circle_step(f))

\* The call has returned.
CircleDone == op = "draw_circle" /\ frame = <<>>

\* C35: draw_circle(cx, cy, r, c, fill) returns for every radius: each
\* iteration of its loop brings x - y down by at least 1, from r. For r < 0
\* it plots nothing and for r = 0 the centre alone. Every pixel it plots is
\* within r of the centre in x and in y. The pixels of the outline are
\* closed under the 8 reflections about the centre, and each of them is
\* plotted by the filled variant called with the same arguments.
C35_DrawCircle ==
  [][op' = "draw_circle" =>
       /\ (frame # <<>> /\ frame' # <<>>) =>
            /\ frame'.x - frame'.y < frame.x - frame.y
            /\ frame'.x - frame'.y >= 0
       /\ frame' # <<>> =>
            /\ frame'.x - frame'.y <= args'[3]
            /\ Len(pixels') < MaxCircleCalls
       /\ \A p \in Range(pixels') :
            /\ Abs(p[1] - args'[1]) <= args'[3]
            /\ Abs(p[2] - args'[2]) <= args'[3]
       /\ CircleDone' =>
            /\ args'[3] < 0 => (pixels' = <<>> /\ gpu' = NewGPU)
            /\ args'[3] = 0 => Range(pixels') = {<<args'[1], args'[2]>>}
            /\ ~args'[5] =>
                 /\ \A p \in Range(pixels') :
                      Reflections(p, <<args'[1], args'[2]>>) \subseteq Range(pixels')
                 /\ args'[3] >= 0 => <<args'[1] + args'[3], args'[2]>> \in Range(pixels')
            /\ args'[5] =>
                 OutlineFrom(circle_setup(args'[1], args'[2], args'[3], 1, FALSE))
                   \subseteq Range(pixels')]_vars

\* C35's case: the outline of radius 3 about (5, 5) has been drawn.
C35_Witness ==
  /\ CircleDone /\ args = <<5, 5, 3, 1, FALSE>>
  /\ Range(pixels) =
       {<<8, 5>>, <<2, 5>>, <<5, 8>>, <<5, 2>>,
        <<7, 6>>, <<7, 4>>, <<3, 6>>, <<3, 4>>,
        <<6, 7>>, <<4, 7>>, <<6, 3>>, <<4, 3>>}
  /\ Len(pixels) = 16

\* The filled circle of radius 10 at the corner (319, 199) has been drawn.
C35_FilledAtTheCorner ==
  /\ CircleDone /\ args = <<319, 199, 10, 1, TRUE>>
  /\ Pixel(gpu, <<199, 319>>) = 1 /\ Pixel(gpu, <<189, 319>>) = 1
  /\ <<329, 199>> \in Range(pixels)

\* A negative radius: returned at once, nothing plotted.
C35_NegativeRadius ==
  /\ CircleDone /\ args[3] = 0 - 2 /\ pixels = <<>> /\ gpu = NewGPU


\* ---------------------------------------------------------------------------
\* The emulator's main loop: the CPU-to-display port protocol.
\*
\* main() constructs the emulator (which loads the demo program), loads the
\* program file named on the command line over it, sets the speed and
\* enters run(). Each pass of run()'s loop handles the pending events, one
\* key at a time, then calls update_cpu(), whose for loop is followed one
\* iteration per step.

MaxEmuCycles == 12
MaxSetAt == 4
MaxSpeed == 101

\* Program files: two that plot with non-zero colour indexes, and none.
PlotProgram ==
  <<1, 5, 145, 128,      \* MOV A, 5 / OUT 0x80
    1, 7, 145, 129,      \* MOV A, 7 / OUT 0x81
    1, 3, 145, 130,      \* MOV A, 3 / OUT 0x82
    1, 9, 145, 128,      \* MOV A, 9 / OUT 0x80
    1, 4, 145, 130,      \* MOV A, 4 / OUT 0x82
    255>>                \* HLT
RowProgram ==
  <<1, 201, 145, 129,    \* MOV A, 201 / OUT 0x81
    145, 130,            \* OUT 0x82
    145, 128,            \* OUT 0x80
    112, 0, 2>>          \* JMP 0x0200
ProgramFiles == {<<>>, PlotProgram, RowProgram}
Speeds == {0, 1, 2}

\* main(): NeilerEmulator(), load_program_from_file(args.program) if a
\* program is named, cycles_per_frame = args.speed if it is non-zero, run()
EmuMain ==
  \E file \in ProgramFiles, speed \in Speeds :
    /\ emu.at = "off"
    /\ op = "init"
    /\ cpu' = LET demo == load_demo_program(NewCPU)
              IN IF file = <<>> THEN demo ELSE load_program(demo, file, ORIGIN).cpu
    /\ emu' = [NewEmulator EXCEPT
                 !.cycles_per_frame = IF speed # 0 THEN speed ELSE @]
    /\ UNCHANGED <<init, asmVars, gpuVars, pc, max_cycles, cycle_count, op, retval,
                   raised, args>>

\* handle_input() takes a KEYDOWN event that changes the emulator's fields e
\* and leaves the CPU alone
KeyDown(e) ==
  /\ emu.at = "events"
  /\ emu' = e
  /\ UNCHANGED <<init, asmVars, gpuVars, cpu, pc, max_cycles, cycle_count, op, retval,
                 raised, args>>

\* K_ESCAPE (and the QUIT event)
KeyEscape == KeyDown([emu EXCEPT !.running = FALSE])
\* K_SPACE
KeySpace == KeyDown([emu EXCEPT !.paused = ~@])
\* K_s
KeyS == KeyDown([emu EXCEPT !.step_mode = ~@])
\* K_PLUS, K_EQUALS
KeyPlus ==
  /\ emu.cycles_per_frame + 100 <= MaxSpeed
  /\ KeyDown([emu EXCEPT !.cycles_per_frame = IF @ + 100 < 10000 THEN @ + 100 ELSE 10000])
\* K_MINUS
KeyMinus == KeyDown([emu EXCEPT !.cycles_per_frame = IF @ - 100 > 1 THEN @ - 100 ELSE 1])

\* K_n while paused or in step mode: cpu.step(), total_cycles += 1
KeyN ==
  /\ emu.at = "events"
  /\ emu.paused \/ emu.step_mode
  /\ emu.total_cycles < MaxEmuCycles
  /\ cpu' = step(cpu).cpu
  /\ emu' = [emu EXCEPT !.total_cycles = @ + 1]
  /\ UNCHANGED <<init, asmVars, gpuVars, pc, max_cycles, cycle_count, op, retval,
                 raised, args>>

\* K_r: a new CPU with the demo program, total_cycles = 0
KeyR ==
  /\ emu.at = "events"
  /\ cpu' = load_demo_program(NewCPU)
  /\ emu' = [emu EXCEPT !.total_cycles = 0]
  /\ UNCHANGED <<init, asmVars, gpuVars, pc, max_cycles, cycle_count, op, retval,
                 raised, args>>

\* The events of this pass are handled and update_cpu() is called: its for
\* loop is entered, or it returns at once and the pass of run()'s loop ends.
UpdateCpu ==
  /\ emu.at = "events"
  /\ emu' = IF UpdateRuns(emu, cpu)
            THEN [emu EXCEPT !.at = "update", !.left = emu.cycles_per_frame]
            ELSE [emu EXCEPT !.at = IF emu.running THEN "events" ELSE "quit"]
  /\ UNCHANGED <<init, asmVars, gpuVars, cpu, pc, max_cycles, cycle_count, op, retval,
                 raised, args>>

\* One iteration of update_cpu()'s for loop: cpu.step(), total_cycles += 1,
\* handle_gpu_output(); or the loop ends (the range is exhausted, or the CPU
\* has halted) and with it the pass of run()'s loop.
UpdateCpuLoop ==
  /\ emu.at = "update"
  /\ IF emu.left = 0 \/ cpu.halted
     THEN /\ emu' = [emu EXCEPT !.at = IF emu.running THEN "events" ELSE "quit",
                                !.left = 0]
          /\ UNCHANGED cpu
     ELSE /\ emu.total_cycles < MaxEmuCycles
          /\ Len(emu.display) < MaxSetAt
          /\ LET out == handle_gpu_output(step(cpu).cpu, emu.display)
             IN /\ cpu' = out.cpu
                /\ emu' = [emu EXCEPT !.left = @ - 1, !.total_cycles = @ + 1,
                                      !.display = out.display]
  /\ UNCHANGED <<init, asmVars, gpuVars, pc, max_cycles, cycle_count, op, retval,
                 raised, args>>

NextEmu ==
  \/ EmuMain \/ KeyEscape \/ KeySpace \/ KeyS \/ KeyPlus \/ KeyMinus
  \/ KeyN \/ KeyR \/ UpdateCpu \/ UpdateCpuLoop
SpecEmu == Init /\ [][NextEmu]_vars

\* This step is the CPU executing an OUT that writes a non-zero value to the
\* draw port.
DrawCommand ==
  /\ ~cpu.halted
  /\ cpu'.cycles = cpu.cycles + 1
  /\ OpcodeAt(cpu) = 145
  /\ read_byte(cpu, cpu.PC + 1) = DRAW_PORT
  /\ cpu.A # 0

\* The pixel a draw command executed now stands for.
CommandedPixel ==
  <<Cell(cpu.io_ports, X_PORT) % NEILER_WIDTH,
    Cell(cpu.io_ports, Y_PORT) % NEILER_HEIGHT,
    index_colour(cpu.A)>>

\* C36: in every execution of the emulator (free-running, paused, or
\* single-stepped with the N key) each OUT that writes a non-zero value to
\* port 0x82 draws exactly one pixel, at (port 0x80 mod 320, port 0x81 mod
\* 200) as those ports stood when the OUT executed, before the CPU executes
\* its next instruction, and port 0x82 is 0 again afterwards; nothing else
\* draws, so no draw command is lost, duplicated or drawn at coordinates
\* written later.
C36_PortProtocol ==
  [][IF DrawCommand
     THEN /\ emu'.display = Append(emu.display, CommandedPixel)
          /\ Cell(cpu'.io_ports, DRAW_PORT) = 0
     ELSE emu'.display = emu.display]_vars

\* The protocol as update_cpu() keeps it while the emulator has never been
\* single-stepped: every step that update_cpu() makes with the draw port
\* clear beforehand.
C36_FreeRunning ==
  [][(emu.at = "update" /\ Cell(cpu.io_ports, DRAW_PORT) = 0)
       => IF DrawCommand
          THEN /\ emu'.display = Append(emu.display, CommandedPixel)
               /\ Cell(cpu'.io_ports, DRAW_PORT) = 0
          ELSE emu'.display = emu.display]_vars

\* A draw command made by a single step stays pending: the draw port holds 3
\* and nothing has been drawn.
C36_PendingDraw ==
  /\ emu.at = "events"
  /\ emu.step_mode
  /\ Cell(cpu.io_ports, DRAW_PORT) = 3
  /\ emu.display = <<>>

\* The pending command is drawn after the next instructions ran: colour index
\* 3 at the column written after it (9, not 5).
C36_DrawnLate ==
  /\ emu.display = <<<<9, 7, index_colour(3)>>>>
  /\ cpu.cycles = 8

\* Free-running, the row wraps at 200: colour index 201 at row 201 mod 200.
C36_RowWraps ==
  /\ emu.at = "update"
  /\ emu.display = <<<<0, 1, index_colour(201)>>>>


\* ---------------------------------------------------------------------------
\* The demo program's loop.

\* The CPU as load_demo_program() leaves it; the demo program stores nothing,
\* so memory stays as loaded while it runs.
DemoCPU == load_demo_program(NewCPU)
DemoLoaded == emu.at # "off" /\ cpu.memory = DemoCPU.memory
\* The addresses the demo program occupies, and those its comments name.
DemoRange == ORIGIN..(ORIGIN + Len(demo_program) - 1)
DemoStart == 512
DemoDrawLoop == 518

\* The CPU executes, in this step, an instruction of the demo program with
\* opcode o.
DemoExecutes(o) ==
  /\ DemoLoaded
  /\ ~cpu.halted
  /\ cpu'.cycles = cpu.cycles + 1
  /\ OpcodeAt(cpu) = o

\* C37: the demo program loops as its comments state: each "JNZ DRAW_LOOP"
\* executed with Zero clear sets PC to 0x0206, the first OUT of DRAW_LOOP,
\* the final "JMP start" sets PC to 0x0200, and the PC never leaves the
\* addresses the program occupies.
C37_DemoLoops ==
  [][/\ (DemoExecutes(114) /\ cpu.FLAG_ZERO = 0) => cpu'.PC = DemoDrawLoop
     /\ DemoExecutes(112) => cpu'.PC = DemoStart
     /\ DemoLoaded' => cpu'.PC \in DemoRange]_vars

\* The first JNZ of the demo program has executed with Zero clear: PC is
\* 0x0602, outside the program.
C37_LeftProgram ==
  /\ DemoLoaded
  /\ cpu.cycles = 10
  /\ cpu.FLAG_ZERO = 0
  /\ cpu.PC = 1538
  /\ cpu.PC \notin DemoRange


\* ---------------------------------------------------------------------------
\* start_service called directly, one call at a time.

RecursionLimit == 6
MaxLaunches == 4

\* Service definitions: a chain, a diamond, a cycle, a self-loop, a missing
\* dependency.
StartDefinitions ==
  {<<Service("networking", <<>>, "no", FALSE),
     Service("sshd", <<"networking">>, "no", FALSE),
     Service("neiler-monitor", <<"sshd", "networking">>, "no", FALSE)>>,
   <<Service("networking", <<"sshd">>, "no", FALSE),
     Service("sshd", <<"networking">>, "no", FALSE)>>,
   <<Service("sshd", <<"sshd">>, "no", FALSE)>>,
   <<Service("networking", <<>>, "no", FALSE),
     Service("sshd", <<"networking", "syslog">>, "no", FALSE)>>}
StartNames == {"networking", "sshd", "neiler-monitor", "syslog"}

\* NeilerInit() and load_services()
InitLoad ==
  \E definitions \in StartDefinitions :
    /\ init.at = "off"
    /\ op = "init"
    /\ init' = LoadedInit(definitions)
    /\ UNCHANGED <<emu, asmVars, cpuVars, gpuVars, op, raised, args>>

\* start_service(name) is called
StartServiceCall ==
  \E name \in StartNames :
    /\ init.at = "loaded"
    /\ init.threads = <<>>
    /\ init' = [init EXCEPT !.threads = <<Thread("call", name)>>, !.result = ""]
    /\ UNCHANGED <<emu, asmVars, cpuVars, gpuVars, op, raised, args>>

\* A thread is about to call Popen.
AtPopen(t) == init.threads[t].stack[Len(init.threads[t].stack)].at = "popen"

\* The next statement of start_service in one of the threads
StartServiceStep ==
  \E t \in DOMAIN init.threads, ok \in BOOLEAN :
    /\ init.at \in {"loaded", "up", "stopping", "down"}
    /\ AtPopen(t) => Len(init.launched) < MaxLaunches
    /\ init' = start_service(init, t, ok, RecursionLimit)
    /\ UNCHANGED <<emu, asmVars, cpuVars, gpuVars, op, raised, args>>

NextStart == InitLoad \/ StartServiceCall \/ StartServiceStep
SpecStart == Init /\ [][NextStart]_vars

\* The direct call has returned or raised.
CallOver == init.at = "loaded" /\ init.threads = <<>> /\ init.result # ""

\* Popen is called, in this step, for the service called name.
Launches(name) ==
  /\ Len(init'.launched) = Len(init.launched) + 1
  /\ init'.launched[Len(init'.launched)] = name

\* The services that `name` requires and that exist.
Required(name) ==
  {init.services[name].requires[k] : k \in DOMAIN init.services[name].requires}
    \cap DOMAIN init.services

\* C38: for every set of service definitions, those whose requires form a
\* cycle or a self-loop included, start_service(name) terminates and returns
\* True or False; and every existing service that a service requires is
\* RUNNING when the service's own process is launched.
C38_StartService ==
  /\ [](CallOver => init.result \in {"True", "False"})
  /\ [][\A name \in DOMAIN init.services :
          Launches(name) => \A dep \in Required(name) : init.services[dep].state = RUNNING]_vars

\* The second half alone.
C38_RequiresFirst ==
  [][\A name \in DOMAIN init.services :
       Launches(name) => \A dep \in Required(name) : init.services[dep].state = RUNNING]_vars

\* Every call ends within the recursion limit unless the definitions have a
\* cycle: without one the stack is never deeper than the longest chain.
C38_AcyclicDepth ==
  (init.at = "loaded" /\ "networking" \in DOMAIN init.services
     /\ init.services["networking"].requires = <<>>)
    => \A t \in DOMAIN init.threads : Len(init.threads[t].stack) <= 3

\* start_service("networking") on the two-service cycle ended with
\* RecursionError, nothing launched.
C38_Cycle ==
  /\ CallOver
  /\ init.result = "RecursionError"
  /\ init.order = <<"networking", "sshd">>
  /\ init.launched = <<>>

\* start_service("neiler-monitor") returned True with the three services
\* launched dependencies first.
C38_Chain ==
  /\ CallOver
  /\ init.result = "True"
  /\ init.launched = <<"networking", "sshd", "neiler-monitor">>


\* ---------------------------------------------------------------------------
\* run(): the start threads of the default services, interleaved.

BootDefinitions ==
  {<<Service("networking", <<>>, "no", FALSE),
     Service("sshd", <<"networking">>, "no", FALSE),
     Service("neiler-monitor", <<"networking">>, "no", FALSE)>>,
   <<Service("sshd", <<"networking">>, "no", FALSE),
     Service("networking", <<>>, "no", FALSE),
     Service("syslog", <<>>, "no", FALSE)>>,
   <<Service("system-setup", <<>>, "no", FALSE),
     Service("workload-sim", <<"system-setup">>, "no", FALSE)>>}

\* The threads run() starts: one per default service that is defined, in
\* the order of default_services.
RECURSIVE StartThreads(_, _)
StartThreads(names, services) ==
  IF names = <<>> THEN <<>>
  ELSE (IF Head(names) \in DOMAIN services THEN <<Thread("boot", Head(names))>> ELSE <<>>)
         \o StartThreads(Tail(names), services)

\* run() up to its main loop, on the definitions load_services() finds
run(definitions) ==
  LET loaded == LoadedInit(definitions)
  IN [loaded EXCEPT !.at = "up",
                    !.threads = StartThreads(default_services, loaded.services)]

InitRunOn(definitions) ==
  /\ init.at = "off"
  /\ op = "init"
  /\ init' = run(definitions)
  /\ UNCHANGED <<emu, asmVars, cpuVars, gpuVars, op, raised, args>>

InitRun == \E definitions \in BootDefinitions : InitRunOn(definitions)

NextBoot == InitRun \/ StartServiceStep
SpecBoot == Init /\ [][NextBoot]_vars

\* How many times Popen was called, successfully, for the service.
LaunchCount(name) == Cardinality({k \in DOMAIN init.launched : init.launched[k] = name})

\* C39: under every interleaving of the start threads that run() launches
\* for the default services, each service's process is launched at most
\* once (a dependency that two services require is not spawned twice), and
\* no service's state is RUNNING while it has no process.
C39_ParallelStart ==
  \A name \in DOMAIN init.services :
    /\ LaunchCount(name) <= 1
    /\ init.services[name].state = RUNNING => init.services[name].process # 0

\* The second half alone.
C39_RunningHasProcess ==
  \A name \in DOMAIN init.services :
    init.services[name].state = RUNNING => init.services[name].process # 0

\* networking was spawned twice, by its own thread and by the thread of a
\* service that requires it; the service record holds the second pid, the
\* first process is nobody's.
C39_SpawnedTwice ==
  /\ init.at = "up"
  /\ init.threads = <<>>
  /\ LaunchCount("networking") = 2
  /\ init.services["networking"].process = 2
  /\ 1 \in init.children
  /\ \A name \in DOMAIN init.services : init.services[name].process # 1


\* ---------------------------------------------------------------------------
\* Supervision and shutdown: children exit, restart timers fire, a shutdown
\* signal arrives, all while the start threads run.

MaxExits == 2

RestartDefinitions ==
  {<<Service("networking", <<>>, "always", FALSE),
     Service("sshd", <<"networking">>, "on-failure", FALSE)>>,
   <<Service("networking", <<>>, "no", TRUE),
     Service("sshd", <<>>, "always", FALSE)>>}

InitRunRestarting == \E definitions \in RestartDefinitions : InitRunOn(definitions)

Alive == init.at \in {"up", "stopping", "down"}

\* SIGCHLD: a child has exited with `status`; handle_sigchld
ChildExits ==
  \E pid \in init.children, status \in {0, 1} :
    /\ Alive
    /\ init.exits < MaxExits
    /\ init' = [handle_sigchld(init, pid, status) EXCEPT !.exits = @ + 1]
    /\ UNCHANGED <<emu, asmVars, cpuVars, gpuVars, op, raised, args>>

\* A restart timer expires: its thread calls start_service(name)
TimerFires ==
  \E k \in DOMAIN init.timers :
    /\ Alive
    /\ init' = [init EXCEPT
                  !.timers = SubSeq(@, 1, k - 1) \o SubSeq(@, k + 1, Len(@)),
                  !.threads = Append(@, Thread("timer", init.timers[k]))]
    /\ UNCHANGED <<emu, asmVars, cpuVars, gpuVars, op, raised, args>>

Reverse(seq) == [k \in DOMAIN seq |-> seq[Len(seq) + 1 - k]]

\* SIGTERM or SIGINT: handle_signal calls shutdown(), which lists the
\* services in reverse order
Shutdown ==
  /\ init.at = "up"
  /\ init' = [init EXCEPT !.at = "stopping", !.to_stop = Reverse(init.order)]
  /\ UNCHANGED <<emu, asmVars, cpuVars, gpuVars, op, raised, args>>

\* shutdown()'s loop: the next stop_service() call begins, or the one begun
\* ends; after the last one shutdown() sets running = False and returns.
ShutdownStep ==
  /\ init.at = "stopping"
  /\ \E ok \in BOOLEAN :
       init' = IF init.to_stop = <<>>
               THEN [init EXCEPT !.running = FALSE, !.at = "down"]
               ELSE IF init.in_stop
               THEN stop_service_end(init, Head(init.to_stop), ok)
               ELSE stop_service_begin(init, Head(init.to_stop))
  /\ UNCHANGED <<emu, asmVars, cpuVars, gpuVars, op, raised, args>>

\* run()'s main loop sees running False and calls sys.exit(0): the
\* interpreter waits for the timer threads, which are not daemon threads,
\* and ends the start threads, which are.
InitExit ==
  /\ init.at = "down"
  /\ init.timers = <<>>
  /\ \A t \in DOMAIN init.threads : init.threads[t].kind # "timer"
  /\ init' = [init EXCEPT !.at = "exited", !.threads = <<>>]
  /\ UNCHANGED <<emu, asmVars, cpuVars, gpuVars, op, raised, args>>

NextShutdown ==
  \/ InitRunRestarting \/ StartServiceStep \/ ChildExits \/ TimerFires
  \/ Shutdown \/ ShutdownStep \/ InitExit
SpecShutdown == Init /\ [][NextShutdown]_vars

ShutdownReturned == init.at \in {"down", "exited"}

\* A restart timer's thread calls Popen, in this step, for the service.
RestartLaunches(name) ==
  /\ Launches(name)
  /\ \E t \in DOMAIN init.threads :
       /\ init.threads[t].kind = "timer"
       /\ AtPopen(t)
       /\ init' = start_service(init, t, TRUE, RecursionLimit)

\* C40: once shutdown() has returned no service is RUNNING or STARTING and
\* no service process is launched any more, be it by a restart timer that
\* was pending or by a start thread that was in progress; and a service that
\* stop_service stopped is never restarted by the restart policy.
C40_Shutdown ==
  /\ [](ShutdownReturned =>
          \A name \in DOMAIN init.services :
            init.services[name].state \notin {RUNNING, STARTING})
  /\ [][ShutdownReturned => init'.launched = init.launched]_vars
  /\ [][\A name \in init.stopped : ~RestartLaunches(name)]_vars

\* The parts of C40, each alone.
C40_NothingRunning ==
  ShutdownReturned =>
    \A name \in DOMAIN init.services :
      init.services[name].state \notin {RUNNING, STARTING}
C40_NothingLaunched ==
  [][ShutdownReturned => init'.launched = init.launched]_vars
C40_StoppedStaysStopped ==
  [][\A name \in init.stopped : ~RestartLaunches(name)]_vars

\* What shutdown() does achieve: when it returns, every service that was
\* RUNNING when its turn came is STOPPED or STOPPING.
C40_VisitedStopped ==
  [][(init.at = "stopping" /\ init.in_stop /\ init'.at = "stopping" /\ ~init'.in_stop)
       => init'.services[Head(init.to_stop)].state \in {STOPPED, STOPPING}]_vars

\* shutdown() has returned, networking's restart timer fired afterwards and
\* its thread launched networking again, which is RUNNING.
C40_RestartedAfterShutdown ==
  /\ init.at = "down"
  /\ init.services["networking"].restart = "always"
  /\ init.services["networking"].state = RUNNING
  /\ init.services["networking"].restart_count = 1
  /\ "networking" \in init.stopped
  /\ init.timers = <<>>
  /\ init.threads = <<>>

\* A service is RUNNING without a process: its child exited between Popen
\* and `service.state = ServiceState.RUNNING`.
C40_RunningWithoutProcess ==
  /\ init.at = "up"
  /\ init.services["sshd"].state = RUNNING
  /\ init.services["sshd"].process = 0

====
